---- MODULE Spec2Model ----
(***************************************************************************)
(* Verification model of the xampus campus assistant: the QueryLog ledger  *)
(* of unanswered questions (controllers/queryLogController.js and          *)
(* services/queryService.js), the KnowledgeGap ledger                      *)
(* (models/KnowledgeGap.js, controllers/knowledgeGapController.js) and the *)
(* chat sessions (controllers/chatController.js).                          *)
(*                                                                         *)
(* String operations (trim, toLowerCase, split, the quote stripping) are   *)
(* computed on sequences of one-character strings.  The state holds each   *)
(* text by its name in the dictionary Texts; Chars spells a text out and   *)
(* Str names the text a computation produced.                              *)
(* Timestamps of ledger documents (createdAt, updatedAt, lastAskedAt,      *)
(* askedAt, addedAt) are not modelled: no modelled handler reads them.     *)
(***************************************************************************)
EXTENDS Integers, Sequences, FiniteSets, TLC

VARIABLES
    queryLogs,      \* the QueryLog collection, in insertion order
    nextId,         \* source of fresh document identifiers (_id)
    lpc,            \* position of each logUnansweredQuery call
    lloc,           \* locals of each logUnansweredQuery call
    nOps,           \* number of ledger operations started so far
    gaps,           \* the KnowledgeGap collection, in insertion order
    gapNextId,      \* source of fresh KnowledgeGap identifiers
    gpc,            \* position of each findOrCreate call
    gloc,           \* locals of each findOrCreate call
    apc,            \* position of the administrator's request
    aloc,           \* locals of the administrator's request
    gapOps,         \* number of KnowledgeGap operations started so far
    userSessions,   \* the Map of sessions: session identifier -> session object
    sessionObjs,    \* the session objects: history and lastActivity
    now,            \* Date.now(), in minutes
    cpc,            \* position of each call of chatting
    cloc,           \* locals of each call of chatting
    cres,           \* what each caller's last call of chatting gave back
    nChats,         \* number of calls of chatting started so far
    nextRand,       \* source of minted session identifiers
    request,        \* the HTTP request a route is about to handle
    response,       \* status of the last HTTP response, 0 while none is sent
    fnArgs,         \* arguments of a call of a helper function
    fnResult        \* what the call returned, <<>> while it has not

qlVars == <<queryLogs, nextId, lpc, lloc, nOps>>

gapVars == <<gaps, gapNextId, gpc, gloc, apc, aloc, gapOps>>

chatVars == <<userSessions, sessionObjs, now, cpc, cloc, cres, nChats, nextRand>>

httpVars == <<request, response>>

fnVars == <<fnArgs, fnResult>>

vars == <<queryLogs, nextId, lpc, lloc, nOps,
          gaps, gapNextId, gpc, gloc, apc, aloc, gapOps,
          userSessions, sessionObjs, now, cpc, cloc, cres, nChats, nextRand,
          request, response, fnArgs, fnResult>>

\* JavaScript null / undefined.
Null == "null"

----------------------------------------------------------------------------
(* Strings *)

sp == <<" ">>
quote == <<"\"">>

wFee == <<"f", "e", "e">>
wFeeCap == <<"F", "e", "e">>
wDue == <<"d", "u", "e">>
wDay == <<"d", "a", "y">>
wNow == <<"n", "o", "w">>
wLab == <<"l", "a", "b">>
wHi == <<"h", "i">>
wOk == <<"o", "k">>

\* String.prototype.toLowerCase.
Upper == <<"A", "B", "C", "D", "E", "F", "G", "H", "I", "J", "K", "L", "M",
           "N", "O", "P", "Q", "R", "S", "T", "U", "V", "W", "X", "Y", "Z">>

Lower == <<"a", "b", "c", "d", "e", "f", "g", "h", "i", "j", "k", "l", "m",
           "n", "o", "p", "q", "r", "s", "t", "u", "v", "w", "x", "y", "z">>

ToLowerChar(c) ==
    IF \E i \in 1..Len(Upper) : Upper[i] = c
    THEN Lower[CHOOSE i \in 1..Len(Upper) : Upper[i] = c]
    ELSE c

toLowerCase(s) == [i \in 1..Len(s) |-> ToLowerChar(s[i])]

IsSpace(c) == c \in {" ", "\n", "\t"}

RECURSIVE TrimLeft(_)
TrimLeft(s) ==
    IF s # <<>> /\ IsSpace(Head(s)) THEN TrimLeft(Tail(s)) ELSE s

RECURSIVE TrimRight(_)
TrimRight(s) ==
    IF s # <<>> /\ IsSpace(s[Len(s)]) THEN TrimRight(SubSeq(s, 1, Len(s) - 1)) ELSE s

\* String.prototype.trim, also the schema option trim: true.
trim(s) == TrimRight(TrimLeft(s))

IsQuote(c) == c \in {"\"", "'"}

\* replace(/^["']|["']$/g, ''): one quote off the start, one off the end.
StripQuotes(s) ==
    LET a == IF s # <<>> /\ IsQuote(Head(s)) THEN Tail(s) ELSE s
    IN  IF a # <<>> /\ IsQuote(a[Len(a)]) THEN SubSeq(a, 1, Len(a) - 1) ELSE a

\* split(/\s+/): the tokens between runs of whitespace; a leading or trailing
\* run leaves an empty token, as in JavaScript.
RECURSIVE SplitFrom(_, _, _)
SplitFrom(s, i, cur) ==
    IF i > Len(s) THEN <<cur>>
    ELSE IF IsSpace(s[i])
         THEN IF i > 1 /\ IsSpace(s[i - 1])
              THEN SplitFrom(s, i + 1, cur)
              ELSE <<cur>> \o SplitFrom(s, i + 1, <<>>)
         ELSE SplitFrom(s, i + 1, Append(cur, s[i]))

split(s) == SplitFrom(s, 1, <<>>)

\* new Set(str.toLowerCase().split(/\s+/).filter(word => word.length > 2))
WordSet(s) ==
    LET t == split(toLowerCase(s))
    IN  {t[i] : i \in {j \in 1..Len(t) : Len(t[j]) > 2}}

\* The texts of the model, and their spelling.
Texts ==
    {"", "Fee due", "hi", "\"fee due day\" ", "\"fee due day\"", "fee due day",
     "fee due day now", "Fee", "fee ", "fee", "lab", "ok"}

Chars(t) ==
    CASE t = "" -> <<>>
      [] t = "Fee due" -> wFeeCap \o sp \o wDue
      [] t = "hi" -> wHi
      [] t = "\"fee due day\" " -> quote \o wFee \o sp \o wDue \o sp \o wDay \o quote \o sp
      [] t = "\"fee due day\"" -> quote \o wFee \o sp \o wDue \o sp \o wDay \o quote
      [] t = "fee due day" -> wFee \o sp \o wDue \o sp \o wDay
      [] t = "fee due day now" -> wFee \o sp \o wDue \o sp \o wDay \o sp \o wNow
      [] t = "Fee" -> wFeeCap
      [] t = "fee " -> wFee \o sp
      [] t = "fee" -> wFee
      [] t = "lab" -> wLab
      [] t = "ok" -> wOk

Str(s) == CHOOSE t \in Texts : Chars(t) = s

\* trim and the quote stripping, tabulated over the texts of the model.
Trimmed == [t \in Texts |-> Str(trim(Chars(t)))]

Unquoted == [t \in Texts |-> Str(StripQuotes(Chars(t)))]

\* query.toLowerCase().trim() of findOrCreate, tabulated over the queries.
LowerTrimmed == [t \in {"Fee", "fee ", "fee", "lab"} |-> Str(trim(toLowerCase(Chars(t))))]

----------------------------------------------------------------------------
(* Similarity matcher (services/queryService.js) *)

\* A similarity is the rational <<numerator, denominator>>.  This variant
\* gives two texts without a word of three letters the similarity 0.
calculateStringSimilarityMutNoEmptyCase(str1, str2) ==
    LET words1 == WordSet(str1)
        words2 == WordSet(str2)
    IN  IF words1 = {} /\ words2 = {}
        THEN <<0, 1>>
        ELSE <<Cardinality(words1 \cap words2), Cardinality(words1 \cup words2)>>

\* This variant keeps the words of one and two letters.
calculateStringSimilarityMutAllWords(str1, str2) ==
    LET t1 == split(toLowerCase(str1))
        t2 == split(toLowerCase(str2))
        words1 == {t1[i] : i \in 1..Len(t1)}
        words2 == {t2[i] : i \in 1..Len(t2)}
    IN  IF words1 = {} /\ words2 = {}
        THEN <<1, 1>>
        ELSE <<Cardinality(words1 \cap words2), Cardinality(words1 \cup words2)>>

\* This variant divides by the number of words of the first text.
calculateStringSimilarityMutContainment(str1, str2) ==
    LET words1 == WordSet(str1)
        words2 == WordSet(str2)
    IN  IF words1 = {} /\ words2 = {}
        THEN <<1, 1>>
        ELSE IF words1 = {}
        THEN <<0, 1>>
        ELSE <<Cardinality(words1 \cap words2), Cardinality(words1)>>

calculateStringSimilarity(str1, str2) ==
    LET words1 == WordSet(str1)
        words2 == WordSet(str2)
    IN  IF words1 = {} /\ words2 = {}
        THEN <<1, 1>>
        ELSE <<Cardinality(words1 \cap words2), Cardinality(words1 \cup words2)>>

\* calculateStringSimilarity of the lowercased texts, as findSimilarQuery
\* calls it, tabulated over the texts of the model.
Similarity ==
    [a \in Texts, b \in Texts |->
        calculateStringSimilarity(toLowerCase(Chars(a)), toLowerCase(Chars(b)))]

RatGT(a, b) == a[1] * b[2] > b[1] * a[2]
RatGE(a, b) == a[1] * b[2] >= b[1] * a[2]

\* Mutant: a threshold of 0.9.
LogThresholdMutHigher == <<9, 10>>

\* The threshold logUnansweredQuery passes: 0.7.
LogThreshold == <<7, 10>>

\* The loop of findSimilarQuery from candidate i on; best is the index of
\* mostSimilar (0 for null), high is highestSimilarity.
RECURSIVE FindSimilarFrom(_, _, _, _, _, _)
FindSimilarFrom(q, cands, threshold, i, best, high) ==
    IF i > Len(cands) THEN best
    ELSE LET similarity == Similarity[q, cands[i].normalizedQuestion]
         IN  IF RatGT(similarity, high) /\ RatGE(similarity, threshold)
             THEN FindSimilarFrom(q, cands, threshold, i + 1, i, similarity)
             ELSE FindSimilarFrom(q, cands, threshold, i + 1, best, high)

\* Mutant: the first candidate at or above the threshold, not the best one.
findSimilarQueryMutFirstAbove(normalizedQuestion, existingQueries, threshold) ==
    LET above == {i \in 1..Len(existingQueries) :
                     RatGE(Similarity[normalizedQuestion,
                                      existingQueries[i].normalizedQuestion],
                           threshold)}
    IN  IF above = {} THEN 0 ELSE CHOOSE i \in above : \A j \in above : i <= j

\* findSimilarQuery: the index in existingQueries of the match, 0 for null.
findSimilarQuery(normalizedQuestion, existingQueries, threshold) ==
    IF Len(existingQueries) = 0 THEN 0
    ELSE FindSimilarFrom(normalizedQuestion, existingQueries, threshold, 1, 0, <<0, 1>>)

----------------------------------------------------------------------------
(* Inputs *)

\* Bounds of the model: the ledger operations a run may start, with calls
\* interleaved and with calls run one at a time.
MaxOps == 3
MaxOpsSerial == 4

Procs == {"p1", "p2"}

\* Caller identifiers; Null is the anonymous caller (chatting's default).
UserIds == {"u1", "u2", Null}

\* Raw questions.
Questions == {"Fee due", "hi"}

\* What the normalizing LLM call may answer: a question inside quotation
\* marks with a trailing blank, and a bare one.
LLMOutputs == {"\"fee due day\" ", "fee due day now"}

\* The outcome of an external call that threw.
Failed == "<failed>"

----------------------------------------------------------------------------
(* Text normalizer (services/queryService.js) *)

\* The catch block of normalizeQuery returns an empty text.
normalizeQueryMutEmptyOnFail(originalQuestion, outcome) ==
    IF outcome = Failed
    THEN ""
    ELSE Unquoted[Trimmed[outcome]]

\* normalizeQuery: the LLM's answer trimmed and stripped of wrapping quotes;
\* the original question when the call throws.
normalizeQuery(originalQuestion, outcome) ==
    IF outcome = Failed
    THEN originalQuestion
    ELSE Unquoted[Trimmed[outcome]]

----------------------------------------------------------------------------
(* QueryLog ledger (controllers/queryLogController.js, models/QueryLog.js) *)

\* includes() of a JavaScript array.
includes(arr, x) == \E i \in 1..Len(arr) : arr[i] = x

\* The find without its filter: every document, answered or not.
FindUnansweredMutAll(coll) == coll

\* QueryLog.find({ answered: false }): the documents in natural order.
FindUnanswered(coll) ==
    LET unanswered(e) == ~e.answered IN SelectSeq(coll, unanswered)

\* Position of the document with identifier id in a collection, 0 if none.
IndexOfId(coll, id) ==
    IF \E i \in 1..Len(coll) : coll[i].id = id
    THEN CHOOSE i \in 1..Len(coll) : coll[i].id = id
    ELSE 0

\* new QueryLog({...}) as the schema stores it: originalQuestion and
\* normalizedQuestion are trimmed, askedByUsers is [userId] for a truthy
\* userId and [] otherwise.
NewQueryLog(id, originalQuestion, normalizedQuestion, userId) ==
    [ id |-> id,
      originalQuestion |-> Trimmed[originalQuestion],
      normalizedQuestion |-> Trimmed[normalizedQuestion],
      answered |-> FALSE,
      answerSource |-> "none",
      askedByUsers |-> IF userId # Null THEN <<userId>> ELSE <<>>,
      askCount |-> 1,
      originalQuestions |-> <<originalQuestion>> ]

\* similarQuery.save() after the update branch of logUnansweredQuery.  The
\* document in memory is the one find returned; save sends what changed in
\* memory: askCount is set to the in-memory value, and the elements pushed
\* onto originalQuestions and askedByUsers are appended to the stored arrays.
SaveUpdated(stored, loaded, originalQuestion, userId) ==
    [ stored EXCEPT
        !.askCount = loaded.askCount + 1,
        !.originalQuestions = Append(stored.originalQuestions, originalQuestion),
        !.askedByUsers = IF ~includes(loaded.askedByUsers, userId)
                         THEN Append(stored.askedByUsers, userId)
                         ELSE stored.askedByUsers ]

\* normalizerFailed tells that the normalizer's external call threw, and
\* context is the existingQueries argument normalizeQuery was called with.
IdleLoc == [ originalQuestion |-> "", userId |-> Null,
             normalizedQuestion |-> "", normalizerFailed |-> FALSE,
             context |-> <<>>, similarQuery |-> <<>> ]

NoCallInFlight == \A p \in Procs : lpc[p] = "idle"

MayStartSerial == NoCallInFlight /\ nOps < MaxOpsSerial

InitQueryLog ==
    /\ queryLogs = <<>>
    /\ nextId = 1
    /\ lpc = [p \in Procs |-> "idle"]
    /\ lloc = [p \in Procs |-> IdleLoc]
    /\ nOps = 0

\* logUnansweredQuery, lines 7-10: the call starts and awaits normalizeQuery.
\* Line 10 is normalizeQuery(originalQuestion): the second parameter takes
\* its default, existingQueries = [].
LogNormalizeLedger(p, originalQuestion, userId, outcome) ==
    /\ lpc[p] = "idle"
    /\ lpc' = [lpc EXCEPT ![p] = "find"]
    /\ lloc' = [lloc EXCEPT ![p] =
                  [ originalQuestion |-> originalQuestion,
                    userId |-> userId,
                    normalizedQuestion |-> normalizeQuery(originalQuestion, outcome),
                    normalizerFailed |-> outcome = Failed,
                    context |-> <<>>,
                    similarQuery |-> <<>> ]]
    /\ nOps' = nOps + 1
    /\ UNCHANGED <<queryLogs, nextId>>
    /\ UNCHANGED <<gapVars, httpVars, fnVars>>

\* The call as an administrator's tool or a test makes it, outside a chat.
LogNormalize(p, originalQuestion, userId, outcome) ==
    /\ LogNormalizeLedger(p, originalQuestion, userId, outcome)
    /\ UNCHANGED <<chatVars, httpVars, fnVars>>

\* logUnansweredQuery, lines 13-16: the store answers the find, and the
\* similar query is held in memory as loaded: <<doc>>, or <<>> for null.
LogFind(p) ==
    /\ lpc[p] = "find"
    /\ LET existingQueries == FindUnanswered(queryLogs)
           i == findSimilarQuery(lloc[p].normalizedQuestion, existingQueries, LogThreshold)
       IN  lloc' = [lloc EXCEPT ![p].similarQuery =
                       IF i = 0 THEN <<>> ELSE <<existingQueries[i]>>]
    /\ lpc' = [lpc EXCEPT ![p] = "save"]
    /\ UNCHANGED <<queryLogs, nextId, nOps>>
    /\ UNCHANGED <<gapVars, chatVars, httpVars, fnVars>>

\* The save looks for a similar entry again and counts the ask on it.
LogSaveMutUpsert(p) ==
    /\ lpc[p] = "save"
    /\ LET loc == lloc[p]
           existingQueries == FindUnanswered(queryLogs)
           m == findSimilarQuery(loc.normalizedQuestion, existingQueries, LogThreshold)
       IN  IF m # 0
           THEN LET i == IndexOfId(queryLogs, existingQueries[m].id)
                IN  /\ queryLogs' = [queryLogs EXCEPT ![i] =
                                        SaveUpdated(queryLogs[i], queryLogs[i],
                                                    loc.originalQuestion, loc.userId)]
                    /\ UNCHANGED nextId
           ELSE /\ queryLogs' = Append(queryLogs,
                       NewQueryLog(nextId, loc.originalQuestion,
                                   loc.normalizedQuestion, loc.userId))
                /\ nextId' = nextId + 1
    /\ lpc' = [lpc EXCEPT ![p] = "idle"]
    /\ lloc' = [lloc EXCEPT ![p] = IdleLoc]
    /\ UNCHANGED nOps
    /\ UNCHANGED <<gapVars, chatVars, httpVars, fnVars>>

\* logUnansweredQuery, lines 18-56: the store executes the save.  Saving a
\* loaded document that has been deleted meanwhile throws.
LogSave(p) ==
    /\ lpc[p] = "save"
    /\ LET loc == lloc[p]
       IN  IF loc.similarQuery # <<>>
           THEN LET similarQuery == loc.similarQuery[1]
                    i == IndexOfId(queryLogs, similarQuery.id)
                IN  /\ queryLogs' = IF i = 0 THEN queryLogs
                                    ELSE [queryLogs EXCEPT ![i] =
                                            SaveUpdated(queryLogs[i], similarQuery,
                                                        loc.originalQuestion, loc.userId)]
                    /\ UNCHANGED nextId
           ELSE /\ queryLogs' = Append(queryLogs,
                       NewQueryLog(nextId, loc.originalQuestion,
                                   loc.normalizedQuestion, loc.userId))
                /\ nextId' = nextId + 1
    /\ lpc' = [lpc EXCEPT ![p] = "idle"]
    /\ lloc' = [lloc EXCEPT ![p] = IdleLoc]
    /\ UNCHANGED nOps
    /\ UNCHANGED <<gapVars, chatVars, httpVars, fnVars>>

\* markQueryAsAnswered: findById, then save of answered and answerSource.
\* The save writes only those two paths, whatever was loaded, so the handler
\* is one step at its save; an unknown identifier answers 404.
markQueryAsAnswered(id) ==
    /\ LET i == IndexOfId(queryLogs, id)
       IN  queryLogs' = IF i = 0 THEN queryLogs
                        ELSE [queryLogs EXCEPT ![i].answered = TRUE,
                                               ![i].answerSource = "human"]
    /\ nOps' = nOps + 1
    /\ UNCHANGED <<nextId, lpc, lloc>>
    /\ UNCHANGED <<gapVars, chatVars, fnVars>>

\* deleteQuery: findByIdAndDelete.
deleteQuery(id) ==
    /\ LET keep(e) == e.id # id
       IN  queryLogs' = SelectSeq(queryLogs, keep)
    /\ nOps' = nOps + 1
    /\ UNCHANGED <<nextId, lpc, lloc>>
    /\ UNCHANGED <<gapVars, chatVars, httpVars, fnVars>>

\* Identifiers an administrator may name: those issued, and one never issued.
KnownIds == 1..nextId

NextQueryLog ==
    \/ \E p \in Procs, q \in Questions, u \in UserIds, o \in LLMOutputs \cup {Failed} :
          nOps < MaxOps /\ LogNormalize(p, q, u, o)
    \/ \E p \in Procs : LogFind(p)
    \/ \E p \in Procs : LogSave(p)
    \/ \E id \in KnownIds : nOps < MaxOps /\ markQueryAsAnswered(id) /\ UNCHANGED httpVars
    \/ \E id \in KnownIds : nOps < MaxOps /\ deleteQuery(id)

\* The same operations, each call and each administrative operation running
\* to completion before the next starts; one caller's position is enough.
SerialProcs == {"p1"}

NextQueryLogSerial ==
    \/ \E p \in SerialProcs, q \in Questions, u \in UserIds, o \in LLMOutputs \cup {Failed} :
          MayStartSerial /\ LogNormalize(p, q, u, o)
    \/ \E p \in Procs : LogFind(p)
    \/ \E p \in Procs : LogSave(p)
    \/ \E id \in KnownIds : MayStartSerial /\ markQueryAsAnswered(id) /\ UNCHANGED httpVars
    \/ \E id \in KnownIds : MayStartSerial /\ deleteQuery(id)

----------------------------------------------------------------------------
(* KnowledgeGap ledger (models/KnowledgeGap.js,                            *)
(* controllers/knowledgeGapController.js).  The category of a gap is not   *)
(* modelled: it keeps its default.                                         *)

MaxGapOps == 3

GapQueries == {"Fee", "fee ", "lab"}

GapUserIds == {"u1", Null}

\* The administrator of the request (req.user.id) and the adminId a request
\* body may carry.
ReqUserId == "adminA"
BodyAdminIds == {Null, "adminB"}

\* The answer of a resolve request; "" is a missing answer.
Answers == {"", "ans1", "ans2"}

\* The pre('save') hook: the priority of a document about to be saved.
PriorityOf(askCount) ==
    IF askCount >= 10 THEN "critical"
    ELSE IF askCount >= 5 THEN "high"
    ELSE IF askCount >= 2 THEN "normal"
    ELSE "low"

NoResolution == <<>>

\* KnowledgeGap.create({...}) as saved: the hook has set the priority.
NewGap(id, normalized, query, userId) ==
    [ id |-> id,
      normalizedQuery |-> LowerTrimmed[normalized],
      originalQueries |-> <<[text |-> query, askedBy |-> userId]>>,
      askCount |-> 1,
      priority |-> PriorityOf(1),
      status |-> "open",
      assignedTo |-> Null,
      resolution |-> NoResolution ]

\* The gap k calls findOrCreate("Fee", "u1") made one after the other leave.
RECURSIVE Occurrences(_)
Occurrences(k) ==
    IF k = 0 THEN <<>> ELSE Append(Occurrences(k - 1), [text |-> "Fee", askedBy |-> "u1"])

SeededGap(k) ==
    [ id |-> 1,
      normalizedQuery |-> "fee",
      originalQueries |-> Occurrences(k),
      askCount |-> k,
      priority |-> PriorityOf(k),
      status |-> "open",
      assignedTo |-> Null,
      resolution |-> NoResolution ]

\* Ask counts of the gap a run may start with: below the thresholds 5 and 10.
SeedCounts == {3, 8}

\* findOne({ normalizedQuery: normalized, status: 'open' }): the position of
\* the first such document, 0 if none.
FindOpen(coll, normalized) ==
    LET hits == {i \in 1..Len(coll) :
                    coll[i].normalizedQuery = normalized /\ coll[i].status = "open"}
    IN  IF hits = {} THEN 0 ELSE CHOOSE i \in hits : \A j \in hits : i <= j

\* The unique index on normalizedQuery refuses a second document of the same
\* normalizedQuery, whatever the status of the first.
DuplicateKey(coll, normalized) ==
    \E i \in 1..Len(coll) : coll[i].normalizedQuery = normalized

\* save() of a loaded document: a path is written when its value in memory
\* differs from the value loaded, and elements pushed onto an array are
\* appended to the stored array.  mem is the document in memory after the
\* pre('save') hook, pushed the elements pushed onto originalQueries, and
\* resolutionSet tells whether resolution was assigned.
SaveGap(stored, loaded, mem, pushed, resolutionSet) ==
    [ stored EXCEPT
        !.askCount = IF mem.askCount # loaded.askCount THEN mem.askCount ELSE @,
        !.priority = IF mem.priority # loaded.priority THEN mem.priority ELSE @,
        !.status = IF mem.status # loaded.status THEN mem.status ELSE @,
        !.assignedTo = IF mem.assignedTo # loaded.assignedTo THEN mem.assignedTo ELSE @,
        !.resolution = IF resolutionSet THEN mem.resolution ELSE @,
        !.originalQueries = @ \o pushed ]

\* The hook applied to the document in memory.
PreSave(mem) == [mem EXCEPT !.priority = PriorityOf(mem.askCount)]

IdleGapLoc == [ query |-> "", userId |-> Null, gap |-> <<>> ]

IdleAdminLoc == [ op |-> "none", answer |-> "", adminId |-> Null, gap |-> <<>> ]

InitGapEmpty ==
    /\ gaps = <<>>
    /\ gapNextId = 1
    /\ gpc = [p \in Procs |-> "idle"]
    /\ gloc = [p \in Procs |-> IdleGapLoc]
    /\ apc = "idle"
    /\ aloc = IdleAdminLoc
    /\ gapOps = 0

InitGapSeeded ==
    /\ \/ gaps = <<>> /\ gapNextId = 1
       \/ \E k \in SeedCounts : gaps = <<SeededGap(k)>> /\ gapNextId = 2
    /\ gpc = [p \in Procs |-> "idle"]
    /\ gloc = [p \in Procs |-> IdleGapLoc]
    /\ apc = "idle"
    /\ aloc = IdleAdminLoc
    /\ gapOps = 0

\* findOrCreate, lines 129-131: the store answers the findOne.
GapFind(p, query, userId) ==
    /\ gpc[p] = "idle"
    /\ LET i == FindOpen(gaps, LowerTrimmed[query])
       IN  gloc' = [gloc EXCEPT ![p] =
                      [ query |-> query, userId |-> userId,
                        gap |-> IF i = 0 THEN <<>> ELSE <<gaps[i]>> ]]
    /\ gpc' = [gpc EXCEPT ![p] = "save"]
    /\ gapOps' = gapOps + 1
    /\ UNCHANGED <<gaps, gapNextId, apc, aloc>>
    /\ UNCHANGED <<qlVars, chatVars, httpVars, fnVars>>

\* incrementAskCount on the loaded gap, as the store executes its save.
incrementAskCount(coll, loaded, query, userId) ==
    LET i == IndexOfId(coll, loaded.id)
        mem == PreSave([loaded EXCEPT !.askCount = @ + 1])
        pushed == <<[text |-> query, askedBy |-> userId]>>
    IN  [coll EXCEPT ![i] = SaveGap(coll[i], loaded, mem, pushed, FALSE)]

\* findOrCreate, lines 133-150: the store executes the save of the loaded
\* gap, or the insert of a new one, which the unique index may refuse.
GapSave(p) ==
    /\ gpc[p] = "save"
    /\ LET loc == gloc[p]
           normalized == LowerTrimmed[loc.query]
       IN  IF loc.gap # <<>>
           THEN /\ gaps' = incrementAskCount(gaps, loc.gap[1], loc.query, loc.userId)
                /\ UNCHANGED gapNextId
           ELSE IF DuplicateKey(gaps, normalized)
                THEN UNCHANGED <<gaps, gapNextId>>
                ELSE /\ gaps' = Append(gaps, NewGap(gapNextId, normalized, loc.query, loc.userId))
                     /\ gapNextId' = gapNextId + 1
    /\ gpc' = [gpc EXCEPT ![p] = "idle"]
    /\ gloc' = [gloc EXCEPT ![p] = IdleGapLoc]
    /\ UNCHANGED <<apc, aloc, gapOps>>
    /\ UNCHANGED <<qlVars, chatVars, httpVars, fnVars>>

\* resolveKnowledgeGap, lines 80-97: a request without an answer is refused;
\* otherwise the store answers findById, and an unknown identifier ends the
\* request with 404.
ResolveLoad(id, answer) ==
    /\ apc = "idle"
    /\ gapOps' = gapOps + 1
    /\ LET i == IndexOfId(gaps, id)
       IN  IF answer = "" \/ i = 0
           THEN UNCHANGED <<apc, aloc>>
           ELSE /\ apc' = "save"
                /\ aloc' = [ op |-> "resolve", answer |-> answer,
                             adminId |-> ReqUserId, gap |-> <<gaps[i]>> ]
    /\ UNCHANGED <<gaps, gapNextId, gpc, gloc>>
    /\ UNCHANGED <<qlVars, chatVars, fnVars>>

\* assignKnowledgeGap, lines 118-128: the store answers findById.
AssignLoad(id, adminId) ==
    /\ apc = "idle"
    /\ gapOps' = gapOps + 1
    /\ LET i == IndexOfId(gaps, id)
       IN  IF i = 0
           THEN UNCHANGED <<apc, aloc>>
           ELSE /\ apc' = "save"
                /\ aloc' = [ op |-> "assign", answer |-> "",
                             adminId |-> IF adminId # Null THEN adminId ELSE ReqUserId,
                             gap |-> <<gaps[i]>> ]
    /\ UNCHANGED <<gaps, gapNextId, gpc, gloc>>
    /\ UNCHANGED <<qlVars, chatVars, httpVars, fnVars>>

\* The method resolve on the loaded gap, as the store executes its save.
resolve(coll, loaded, answer, adminId) ==
    LET i == IndexOfId(coll, loaded.id)
        mem == PreSave([loaded EXCEPT
                   !.status = "resolved",
                   !.resolution = <<[answer |-> answer, addedBy |-> adminId]>>])
    IN  [coll EXCEPT ![i] = SaveGap(coll[i], loaded, mem, <<>>, TRUE)]

\* The method assignTo on the loaded gap, as the store executes its save.
assignTo(coll, loaded, adminId) ==
    LET i == IndexOfId(coll, loaded.id)
        mem == PreSave([loaded EXCEPT !.status = "under_review", !.assignedTo = adminId])
    IN  [coll EXCEPT ![i] = SaveGap(coll[i], loaded, mem, <<>>, FALSE)]

\* resolveKnowledgeGap line 99 and assignKnowledgeGap line 130: the save.
AdminSave ==
    /\ apc = "save"
    /\ gaps' = IF aloc.op = "resolve"
               THEN resolve(gaps, aloc.gap[1], aloc.answer, aloc.adminId)
               ELSE assignTo(gaps, aloc.gap[1], aloc.adminId)
    /\ apc' = "idle"
    /\ aloc' = IdleAdminLoc
    /\ UNCHANGED <<gapNextId, gpc, gloc, gapOps>>
    /\ UNCHANGED <<qlVars, chatVars, httpVars, fnVars>>

KnownGapIds == 1..gapNextId

NextGap ==
    \/ \E p \in Procs, q \in GapQueries, u \in GapUserIds :
          gapOps < MaxGapOps /\ GapFind(p, q, u)
    \/ \E p \in Procs : GapSave(p)
    \/ \E id \in KnownGapIds, a \in Answers : gapOps < MaxGapOps /\ ResolveLoad(id, a) /\ UNCHANGED httpVars
    \/ \E id \in KnownGapIds, a \in BodyAdminIds : gapOps < MaxGapOps /\ AssignLoad(id, a)
    \/ AdminSave

----------------------------------------------------------------------------
(* Chat sessions: controllers/chatController.js *)

\* Calls of chatting a run may start, and the last minute of the clock.
MaxChats == 2
MaxTime == 6

\* The clock counts minutes; SESSION_TIMEOUT is 5 * 60 * 1000 ms.
SESSION_TIMEOUT == 5

\* Session identifiers a request may carry, and those chatting mints with
\* Date.now() and Math.random() when the request names neither a session nor
\* a user.
BodySessionIds == {Null, "s1"}
ChatUserIds == {Null, "u1"}
RandomIds == <<"r1", "r2", "r3", "r4">>
SessionIds == {"s1", "u1"} \cup {RandomIds[i] : i \in 1..Len(RandomIds)}

\* What a request may ask, what the rewriting model may output, and what
\* the normalizer may output for logUnansweredQuery.
ChatQuestions == {"Fee due"}
RewriteOutputs == {"fee due day"}
ChatLLMOutputs == {"fee due day now"}

\* The patterns of isUnansweredResponse, each the list of its literals.
unansweredPatterns ==
    << << <<"I", " ", "c", "a", "n", "'", "t", " ", "h", "e", "l", "p">>,
          <<"c", "o", "n", "t", "a", "c", "t">>,
          <<"s", "t", "a", "f", "f">> >>,
       << <<"I", " ", "d", "o", "n", "'", "t", " ", "h", "a", "v", "e">>,
          <<"i", "n", "f", "o", "r", "m", "a", "t", "i", "o", "n">> >>,
       << <<"I", "'", "m", " ", "n", "o", "t", " ", "s", "u", "r", "e">>,
          <<"a", "b", "o", "u", "t">> >>,
       << <<"I", " ", "c", "a", "n", "n", "o", "t", " ", "p", "r", "o",
          "v", "i", "d", "e">>,
          <<"i", "n", "f", "o", "r", "m", "a", "t", "i", "o", "n">> >>,
       << <<"I", " ", "d", "o", "n", "'", "t", " ", "h", "a", "v", "e",
          " ", "a", "c", "c", "e", "s", "s">>,
          <<"t", "o">> >>,
       << <<"I", "'", "m", " ", "u", "n", "a", "b", "l", "e", " ", "t",
          "o">>,
          <<"h", "e", "l", "p">> >>,
       << <<"I", " ", "c", "a", "n", "'", "t", " ", "a", "s", "s", "i",
          "s", "t">>,
          <<"w", "i", "t", "h">> >>,
       << <<"I", " ", "d", "o", "n", "'", "t", " ", "h", "a", "v", "e">>,
          <<"s", "p", "e", "c", "i", "f", "i", "c">>,
          <<"d", "e", "t", "a", "i", "l", "s">> >>,
       << <<"c", "o", "n", "t", "a", "c", "t">>,
          <<"s", "t", "a", "f", "f">>,
          <<"l", "o", "c", "a", "l", "l", "y">> >>,
       << <<"s", "t", "u", "d", "e", "n", "t", "_", "h", "e", "l", "p",
          "@", "j", "s", "s", "a", "t", "e", "n", ".", "a", "c", ".", "i",
          "n">> >>,
       << <<"I", " ", "c", "a", "n", "n", "o", "t", " ", "a", "n", "s",
          "w", "e", "r">>,
          <<"w", "i", "t", "h", "o", "u", "t">> >>,
       << <<"I", "'", "m", " ", "n", "o", "t", " ", "e", "q", "u", "i",
          "p", "p", "e", "d">>,
          <<"t", "o">> >>,
       << <<"I", " ", "l", "a", "c", "k">>,
          <<"i", "n", "f", "o", "r", "m", "a", "t", "i", "o", "n">> >>,
       << <<"I", "'", "m", " ", "s", "o", "r", "r", "y">>,
          <<"I", " ", "d", "o", "n", "'", "t", " ", "k", "n", "o", "w">> >> >>

aFee == "Fee is due Monday."

aCant == "I can't help, contact the staff locally at student_help@jssaten.ac.in"

ResponseChars(a) ==
    CASE a = aFee ->
           <<"F", "e", "e", " ", "i", "s", " ", "d", "u", "e", " ", "M",
           "o", "n", "d", "a", "y", ".">>
      [] a = aCant ->
           <<"I", " ", "c", "a", "n", "'", "t", " ", "h", "e", "l", "p",
           ",", " ", "c", "o", "n", "t", "a", "c", "t", " ", "t", "h", "e",
           " ", "s", "t", "a", "f", "f", " ", "l", "o", "c", "a", "l", "l",
           "y", " ", "a", "t", " ", "s", "t", "u", "d", "e", "n", "t", "_",
           "h", "e", "l", "p", "@", "j", "s", "s", "a", "t", "e", "n", ".",
           "a", "c", ".", "i", "n">>

\* What the answering model may output.
ResponseTexts == {aFee, aCant}

\* One alternative of a pattern is a list of literals separated by ".*",
\* which matches any run of characters other than a line terminator.  The
\* patterns carry the i flag.
MatchAt(s, lit, i) ==
    /\ i + Len(lit) - 1 <= Len(s)
    /\ \A k \in 1..Len(lit) : ToLowerChar(s[i + k - 1]) = ToLowerChar(lit[k])

NoLineBreak(s, from, to) == \A k \in from..to : s[k] # "\n"

RECURSIVE MatchParts(_, _, _, _)
MatchParts(s, parts, k, i) ==
    /\ MatchAt(s, parts[k], i)
    /\ \/ k = Len(parts)
       \/ \E j \in (i + Len(parts[k]))..(Len(s) + 1) :
             /\ NoLineBreak(s, i + Len(parts[k]), j - 1)
             /\ MatchParts(s, parts, k + 1, j)

RegexTest(parts, s) == \E i \in 1..(Len(s) + 1) : MatchParts(s, parts, 1, i)

isUnansweredResponse(responseText) ==
    \E n \in 1..Len(unansweredPatterns) : RegexTest(unansweredPatterns[n], responseText)

Unanswered == [a \in ResponseTexts |-> isUnansweredResponse(ResponseChars(a))]

\* The session store is the Map userSessions, which holds for a session
\* identifier a reference to a session object (0: no entry), and the session
\* objects themselves, which a call keeps hold of after the Map has dropped
\* them.
Store == [map |-> userSessions, objs |-> sessionObjs]

getSession(S, sessionId, t) ==
    IF S.map[sessionId] # 0
    THEN S
    ELSE [ map |-> [S.map EXCEPT ![sessionId] = Len(S.objs) + 1],
           objs |-> Append(S.objs, [history |-> <<>>, lastActivity |-> t]) ]

updateSessionActivity(S, sessionId, t) ==
    LET S1 == getSession(S, sessionId, t)
    IN  [S1 EXCEPT !.objs[S1.map[sessionId]].lastActivity = t]

\* The sweep, dropping also a session idle for exactly the timeout.
cleanupInactiveSessionsMutAtTimeout(S, t) ==
    [S EXCEPT !.map =
        [sessionId \in DOMAIN S.map |->
            IF S.map[sessionId] # 0
               /\ t - S.objs[S.map[sessionId]].lastActivity >= SESSION_TIMEOUT
            THEN 0
            ELSE S.map[sessionId]]]

\* The sweep, touching every session it keeps.
cleanupInactiveSessionsMutTouch(S, t) ==
    [ map |-> [sessionId \in DOMAIN S.map |->
                 IF S.map[sessionId] # 0
                    /\ t - S.objs[S.map[sessionId]].lastActivity > SESSION_TIMEOUT
                 THEN 0
                 ELSE S.map[sessionId]],
      objs |-> [o \in DOMAIN S.objs |->
                 IF /\ \E sessionId \in DOMAIN S.map : S.map[sessionId] = o
                    /\ t - S.objs[o].lastActivity <= SESSION_TIMEOUT
                 THEN [S.objs[o] EXCEPT !.lastActivity = t]
                 ELSE S.objs[o]] ]

\* cleanupInactiveSessions run at time t.
cleanupInactiveSessions(S, t) ==
    [S EXCEPT !.map =
        [sessionId \in DOMAIN S.map |->
            IF S.map[sessionId] # 0
               /\ t - S.objs[S.map[sessionId]].lastActivity > SESSION_TIMEOUT
            THEN 0
            ELSE S.map[sessionId]]]

\* The turn is pushed onto every session object.
historyPushMutBroadcast(S, session, turn) ==
    [S EXCEPT !.objs = [o \in DOMAIN S.objs |->
                          [S.objs[o] EXCEPT !.history = Append(@, turn)]]]

\* session.history.push(turn) on the session object a call holds.
historyPush(S, session, turn) ==
    [S EXCEPT !.objs[session].history = Append(@, turn)]

\* The pop left out.
historyPopMutKeep(S, session) == S

\* The first turn goes instead of the last.
historyPopMutShift(S, session) ==
    [S EXCEPT !.objs[session].history =
        IF @ = <<>> THEN @ ELSE SubSeq(@, 2, Len(@))]

\* session.history.pop(): the last turn goes, whoever pushed it.
historyPop(S, session) ==
    [S EXCEPT !.objs[session].history =
        IF @ = <<>> THEN @ ELSE SubSeq(@, 1, Len(@) - 1)]

Turn(role, content) == [role |-> role, content |-> content]

\* given is the sessionId argument as passed, and h0 records the history of
\* the session at the entry of the call.
IdleChatLoc == [ question |-> "", userId |-> Null, given |-> Null,
                 sessionId |-> Null, session |-> 0, queries |-> "", h0 |-> <<>> ]

NoResult == [status |-> "none", answer |-> "", sessionId |-> Null]

InitChat ==
    /\ userSessions = [sessionId \in SessionIds |-> 0]
    /\ sessionObjs = <<>>
    /\ now = 0
    /\ cpc = [c \in Procs |-> "idle"]
    /\ cloc = [c \in Procs |-> IdleChatLoc]
    /\ cres = [c \in Procs |-> NoResult]
    /\ nChats = 0
    /\ nextRand = 1

\* A rejected await is swallowed and the call returns an empty answer.
ThrowsMutSwallow(c) ==
    /\ cpc' = [cpc EXCEPT ![c] = "idle"]
    /\ cloc' = [cloc EXCEPT ![c] = IdleChatLoc]
    /\ cres' = [cres EXCEPT ![c] = [status |-> "ok", answer |-> "",
                                   sessionId |-> cloc[c].sessionId]]

\* A rejected await of chatting: nothing catches it, the call ends with the
\* error and the route answers 500.
Throws(c) ==
    /\ cpc' = [cpc EXCEPT ![c] = "idle"]
    /\ cloc' = [cloc EXCEPT ![c] = IdleChatLoc]
    /\ cres' = [cres EXCEPT ![c] = [status |-> "error", answer |-> "", sessionId |-> Null]]

\* return { answer: responseText, sessionId }
Returns(c, responseText) ==
    /\ cpc' = [cpc EXCEPT ![c] = "idle"]
    /\ cloc' = [cloc EXCEPT ![c] = IdleChatLoc]
    /\ cres' = [cres EXCEPT ![c] = [status |-> "ok", answer |-> responseText,
                                   sessionId |-> cloc[c].sessionId]]

\* Every call gets a session identifier of the random form.
settleSessionIdMutAlwaysMint(sessionIdIn, userId, random) == random

\* chatting, lines 101-103: the session identifier of the call; random is
\* the value of `session_${Date.now()}_${Math.random()...}`.
settleSessionId(sessionIdIn, userId, random) ==
    IF sessionIdIn # Null THEN sessionIdIn
    ELSE IF userId # Null THEN userId
    ELSE random

\* chatting, lines 99-106, and transformQuery, lines 73-89: the session
\* identifier is settled, the session fetched or created, the raw question
\* pushed, and the rewriting model called.
ChatStart(c, question, userId, sessionIdIn) ==
    /\ cpc[c] = "idle"
    /\ LET minted == sessionIdIn = Null /\ userId = Null
           sessionId == settleSessionId(sessionIdIn, userId, RandomIds[nextRand])
           S1 == getSession(Store, sessionId, now)
           session == S1.map[sessionId]
           S2 == historyPush(S1, session, Turn("user", question))
       IN  /\ userSessions' = S2.map
           /\ sessionObjs' = S2.objs
           /\ cloc' = [cloc EXCEPT ![c] =
                         [ question |-> question, userId |-> userId,
                           given |-> sessionIdIn,
                           sessionId |-> sessionId, session |-> session,
                           queries |-> "", h0 |-> S1.objs[session].history ]]
           /\ nextRand' = IF minted THEN nextRand + 1 ELSE nextRand
    /\ cpc' = [cpc EXCEPT ![c] = "rewrite"]
    /\ cres' = [cres EXCEPT ![c] = NoResult]
    /\ nChats' = nChats + 1
    /\ UNCHANGED now
    /\ UNCHANGED <<qlVars, gapVars, fnVars>>

\* transformQuery, lines 89-96: the rewriting model answers, the raw
\* question is popped and the session touched; or the call is rejected.
RewriteDone(c, outcome) ==
    /\ cpc[c] = "rewrite"
    /\ IF outcome = Failed
       THEN /\ Throws(c)
            /\ UNCHANGED <<userSessions, sessionObjs>>
       ELSE LET S1 == historyPop(Store, cloc[c].session)
                S2 == updateSessionActivity(S1, cloc[c].sessionId, now)
            IN  /\ userSessions' = S2.map
                /\ sessionObjs' = S2.objs
                /\ cloc' = [cloc EXCEPT ![c].queries = outcome]
                /\ cpc' = [cpc EXCEPT ![c] = "embed"]
                /\ UNCHANGED cres
    /\ UNCHANGED <<now, nChats, nextRand>>
    /\ UNCHANGED <<qlVars, gapVars, httpVars, fnVars>>

\* chatting, lines 108-114: the embedding of the rewritten question.
EmbedDone(c, ok) ==
    /\ cpc[c] = "embed"
    /\ IF ok
       THEN /\ cpc' = [cpc EXCEPT ![c] = "search"]
            /\ UNCHANGED <<cloc, cres>>
       ELSE Throws(c)
    /\ UNCHANGED <<userSessions, sessionObjs, now, nChats, nextRand>>
    /\ UNCHANGED <<qlVars, gapVars, httpVars, fnVars>>

\* chatting, lines 115-139: the vector search answers, the rewritten
\* question is pushed and the answering model called.
SearchDone(c, ok) ==
    /\ cpc[c] = "search"
    /\ IF ok
       THEN LET S1 == historyPush(Store, cloc[c].session, Turn("user", cloc[c].queries))
            IN  /\ sessionObjs' = S1.objs
                /\ cpc' = [cpc EXCEPT ![c] = "generate"]
                /\ UNCHANGED <<cloc, cres>>
       ELSE /\ Throws(c)
            /\ UNCHANGED sessionObjs
    /\ UNCHANGED <<userSessions, now, nChats, nextRand>>
    /\ UNCHANGED <<qlVars, gapVars, httpVars, fnVars>>

\* chatting, lines 139-166: the answer is pushed and the session touched;
\* an answer the classifier takes for unanswered starts logUnansweredQuery,
\* any other is returned.
GenerateDone(c, outcome) ==
    /\ cpc[c] = "generate"
    /\ IF outcome = Failed
       THEN /\ Throws(c)
            /\ UNCHANGED <<userSessions, sessionObjs>>
       ELSE LET S1 == historyPush(Store, cloc[c].session, Turn("assistant", outcome))
                S2 == updateSessionActivity(S1, cloc[c].sessionId, now)
            IN  /\ userSessions' = S2.map
                /\ sessionObjs' = S2.objs
                /\ IF Unanswered[outcome]
                   THEN /\ cpc' = [cpc EXCEPT ![c] = "logging"]
                        /\ cres' = [cres EXCEPT ![c].answer = outcome]
                        /\ UNCHANGED cloc
                   ELSE Returns(c, outcome)
    /\ UNCHANGED <<now, nChats, nextRand>>
    /\ UNCHANGED <<qlVars, gapVars, httpVars, fnVars>>

\* The rewritten question is logged instead of the raw one.
ChatLogNormalizeMutRewritten(c, outcome) ==
    /\ cpc[c] = "logging"
    /\ LogNormalizeLedger(c, cloc[c].queries, cloc[c].userId, outcome)
    /\ cpc' = [cpc EXCEPT ![c] = "logged"]
    /\ UNCHANGED <<userSessions, sessionObjs, now, cloc, cres, nChats, nextRand>>

\* chatting, line 158: logUnansweredQuery(question, userId) has its
\* normalized question.
ChatLogNormalize(c, outcome) ==
    /\ cpc[c] = "logging"
    /\ LogNormalizeLedger(c, cloc[c].question, cloc[c].userId, outcome)
    /\ cpc' = [cpc EXCEPT ![c] = "logged"]
    /\ UNCHANGED <<userSessions, sessionObjs, now, cloc, cres, nChats, nextRand>>

\* The catch block of chatting rethrows the logging error.
LogFailMutRethrow(c) ==
    /\ cpc[c] = "logged"
    /\ lpc[c] \in {"find", "save"}
    /\ lpc' = [lpc EXCEPT ![c] = "idle"]
    /\ lloc' = [lloc EXCEPT ![c] = IdleLoc]
    /\ Throws(c)
    /\ UNCHANGED <<queryLogs, nextId, nOps>>
    /\ UNCHANGED <<userSessions, sessionObjs, now, nChats, nextRand>>
    /\ UNCHANGED <<gapVars, httpVars, fnVars>>

\* chatting, lines 160-163: the store rejects the find or the save of
\* logUnansweredQuery, which rethrows, and chatting catches.
LogFail(c) ==
    /\ cpc[c] = "logged"
    /\ lpc[c] \in {"find", "save"}
    /\ lpc' = [lpc EXCEPT ![c] = "idle"]
    /\ lloc' = [lloc EXCEPT ![c] = IdleLoc]
    /\ UNCHANGED <<queryLogs, nextId, nOps>>
    /\ UNCHANGED <<gapVars, chatVars, httpVars, fnVars>>

\* chatting, line 166, after the logging has ended either way.
ChatReturn(c) ==
    /\ cpc[c] = "logged"
    /\ lpc[c] = "idle"
    /\ Returns(c, cres[c].answer)
    /\ UNCHANGED <<userSessions, sessionObjs, now, nChats, nextRand>>
    /\ UNCHANGED <<qlVars, gapVars, httpVars, fnVars>>

\* A minute passes and the interval timer of line 47 runs
\* cleanupInactiveSessions.  What happens within a minute carries the time
\* of the minute's start.
Sweep ==
    /\ now < MaxTime
    /\ now' = now + 1
    /\ userSessions' = cleanupInactiveSessions(Store, now + 1).map
    /\ sessionObjs' = cleanupInactiveSessions(Store, now + 1).objs
    /\ UNCHANGED <<cpc, cloc, cres, nChats, nextRand>>
    /\ UNCHANGED <<qlVars, gapVars, httpVars, fnVars>>

NoChatInFlight == \A c \in Procs : cpc[c] = "idle"

NextChat ==
    \/ \E c \in Procs, q \in ChatQuestions, u \in ChatUserIds, s \in BodySessionIds :
          nChats < MaxChats /\ ChatStart(c, q, u, s) /\ UNCHANGED httpVars
    \/ \E c \in Procs, o \in RewriteOutputs \cup {Failed} : RewriteDone(c, o)
    \/ \E c \in Procs, ok \in BOOLEAN : EmbedDone(c, ok)
    \/ \E c \in Procs, ok \in BOOLEAN : SearchDone(c, ok)
    \/ \E c \in Procs, o \in ResponseTexts \cup {Failed} : GenerateDone(c, o)
    \/ \E c \in Procs, o \in ChatLLMOutputs \cup {Failed} : ChatLogNormalize(c, o)
    \/ \E c \in Procs : cpc[c] = "logged" /\ LogFind(c)
    \/ \E c \in Procs : cpc[c] = "logged" /\ LogSave(c)
    \/ \E c \in Procs : LogFail(c)
    \/ \E c \in Procs : ChatReturn(c)
    \/ Sweep

\* The same, each call of chatting running to its end before the next starts.
NextChatSerial ==
    \/ \E c \in SerialProcs, q \in ChatQuestions, u \in ChatUserIds, s \in BodySessionIds :
          NoChatInFlight /\ nChats < MaxChats /\ ChatStart(c, q, u, s) /\ UNCHANGED httpVars
    \/ \E c \in Procs, o \in RewriteOutputs \cup {Failed} : RewriteDone(c, o)
    \/ \E c \in Procs, ok \in BOOLEAN : EmbedDone(c, ok)
    \/ \E c \in Procs, ok \in BOOLEAN : SearchDone(c, ok)
    \/ \E c \in Procs, o \in ResponseTexts \cup {Failed} : GenerateDone(c, o)
    \/ \E c \in Procs, o \in ChatLLMOutputs \cup {Failed} : ChatLogNormalize(c, o)
    \/ \E c \in Procs : cpc[c] = "logged" /\ LogFind(c)
    \/ \E c \in Procs : cpc[c] = "logged" /\ LogSave(c)
    \/ \E c \in Procs : LogFail(c)
    \/ \E c \in Procs : ChatReturn(c)
    \/ Sweep

----------------------------------------------------------------------------
(* Routes: index.js, routes/fileRoutes.js and the handlers they enter *)

NoRequest == [ route |-> "none", id |-> 0, question |-> "", userId |-> Null,
               sessionId |-> Null, answer |-> "" ]

\* POST /chat with its body; "" is a missing question.
ChatRequests ==
    { [ route |-> "chat", id |-> 0, question |-> q, userId |-> u,
        sessionId |-> s, answer |-> "" ] :
      q \in ChatQuestions \cup {""}, u \in ChatUserIds, s \in BodySessionIds }

\* The resolve request of a knowledge gap (resolveKnowledgeGap) and
\* PATCH /:id/resolve of a logged query (markQueryAsAnswered), with the
\* identifier of the path and the answer of the body; "" is a missing answer.
ResolveRequests(route, ids) ==
    { [ route |-> route, id |-> id, question |-> "", userId |-> Null,
        sessionId |-> Null, answer |-> a ] : id \in ids, a \in Answers }

InitHttp ==
    /\ request = NoRequest
    /\ response = 0

NoRequestInFlight ==
    /\ request = NoRequest
    /\ NoChatInFlight
    /\ NoCallInFlight
    /\ apc = "idle"

\* A request reaches its route, the server handling one request at a time.
Arrive(r) ==
    /\ NoRequestInFlight
    /\ r.route = "chat" => nChats < MaxChats
    /\ r.route = "resolveGap" => gapOps < MaxGapOps
    /\ r.route = "resolveQuery" => nOps < MaxOps
    /\ request' = r
    /\ response' = 0
    /\ UNCHANGED <<qlVars, gapVars, chatVars, fnVars>>

\* index.js, lines 76-104, the forwarding to the other server having failed:
\* a body without a question is answered 400, any other enters chatting.
PostChat(c) ==
    /\ request.route = "chat"
    /\ IF request.question = ""
       THEN /\ response' = 400
            /\ UNCHANGED <<qlVars, gapVars, chatVars, fnVars>>
       ELSE /\ ChatStart(c, request.question, request.userId, request.sessionId)
            /\ response' = 0
    /\ request' = NoRequest

\* resolveKnowledgeGap, lines 78-97, entered from its route.
PatchResolveGap ==
    /\ request.route = "resolveGap"
    /\ ResolveLoad(request.id, request.answer)
    /\ response' = IF request.answer = "" THEN 400
                   ELSE IF IndexOfId(gaps, request.id) = 0 THEN 404
                   ELSE 0
    /\ request' = NoRequest

\* routes/fileRoutes.js, line 492, and markQueryAsAnswered, lines 108-133:
\* the handler reads the identifier of the path and nothing of the body.
PatchResolveQuery ==
    /\ request.route = "resolveQuery"
    /\ markQueryAsAnswered(request.id)
    /\ response' = IF IndexOfId(queryLogs, request.id) = 0 THEN 404 ELSE 200
    /\ request' = NoRequest

\* The requests of the three routes and what their handlers go on to do.
NextRoutes ==
    \/ \E r \in ChatRequests \cup ResolveRequests("resolveGap", KnownGapIds)
                             \cup ResolveRequests("resolveQuery", KnownIds) : Arrive(r)
    \/ \E c \in SerialProcs : PostChat(c)
    \/ \E c \in Procs, o \in RewriteOutputs \cup {Failed} : RewriteDone(c, o)
    \/ \E c \in Procs, ok \in BOOLEAN : EmbedDone(c, ok)
    \/ \E c \in Procs, ok \in BOOLEAN : SearchDone(c, ok)
    \/ \E c \in Procs, o \in ResponseTexts \cup {Failed} : GenerateDone(c, o)
    \/ \E c \in Procs, o \in ChatLLMOutputs \cup {Failed} : ChatLogNormalize(c, o)
    \/ \E c \in Procs : cpc[c] = "logged" /\ LogFind(c)
    \/ \E c \in Procs : cpc[c] = "logged" /\ LogSave(c)
    \/ \E c \in Procs : LogFail(c)
    \/ \E c \in Procs : ChatReturn(c)
    \/ PatchResolveGap
    \/ AdminSave
    \/ PatchResolveQuery

----------------------------------------------------------------------------
(* Helper functions called on their own: the similarity of two texts       *)
(* (services/queryService.js)                                              *)

NoArgs ==
    [ fn |-> "none", str1 |-> "", str2 |-> "", vector |-> <<>>,
      existingQueries |-> <<>>, threshold |-> <<0, 1>> ]

InitFn ==
    /\ fnArgs = NoArgs
    /\ fnResult = <<>>

\* Two texts for calculateStringSimilarity, or a question and the normalized
\* question of the one entry of existingQueries for findSimilarQuery.
TextArgs ==
    { [ fn |-> f, str1 |-> a, str2 |-> b, vector |-> <<>>,
        existingQueries |-> << [normalizedQuestion |-> b] >>,
        threshold |-> LogThreshold ] :
      f \in {"calculateStringSimilarity", "findSimilarQuery"},
      a \in Texts, b \in Texts }

\* The default of the parameter threshold of findSimilarQuery: 0.6.
DefaultThreshold == <<6, 10>>

MaxCandidates == 3

CandidateTexts == {"fee due day", "fee due day now", "Fee due", "hi"}

\* The lists of no, two or three entries that findSimilarQuery is given.
CandidateLists ==
    { l \in UNION { [1..n -> [normalizedQuestion : CandidateTexts]] :
                      n \in 0..MaxCandidates } : Len(l) # 1 }

\* A question, a list of entries and a threshold for findSimilarQuery.
CandidateArgs ==
    { [ fn |-> "findSimilarQuery", str1 |-> a, str2 |-> "", vector |-> <<>>,
        existingQueries |-> l, threshold |-> t ] :
      a \in {"fee due day", "Fee due", "hi"}, l \in CandidateLists,
      t \in {DefaultThreshold, LogThreshold} }

\* calculateStringSimilarity(str1, str2) returns.
CallSimilarity ==
    /\ fnArgs.fn = "calculateStringSimilarity"
    /\ fnResult = <<>>
    /\ fnResult' = <<calculateStringSimilarity(Chars(fnArgs.str1), Chars(fnArgs.str2))>>
    /\ UNCHANGED fnArgs
    /\ UNCHANGED <<qlVars, gapVars, chatVars, httpVars>>

\* findSimilarQuery(str1, existingQueries, threshold) returns: the position
\* of the match, 0 for null.
CallFindSimilar ==
    /\ fnArgs.fn = "findSimilarQuery"
    /\ fnResult = <<>>
    /\ fnResult' = <<findSimilarQuery(fnArgs.str1, fnArgs.existingQueries,
                                      fnArgs.threshold)>>
    /\ UNCHANGED fnArgs
    /\ UNCHANGED <<qlVars, gapVars, chatVars, httpVars>>

----------------------------------------------------------------------------
(* Vector reducer: reduceDimensions of controllers/chatController.js       *)

targetLength == 768

RECURSIVE Pow2(_)
Pow2(n) == IF n = 0 THEN 1 ELSE 2 * Pow2(n - 1)

\* The exponent of the greatest power of two that is at most n, n >= 1.
RECURSIVE Log2Floor(_)
Log2Floor(n) == IF n < 2 THEN 0 ELSE 1 + Log2Floor(n \div 2)

\* ratio = sourceLength / targetLength is an IEEE-754 double.  For
\* sourceLength >= targetLength = 3 * 2^8 its binary exponent is
\* RatioExponent and its 53-bit significand is sourceLength * 2^(44 - E) / 3
\* rounded to the nearest integer: RatioError is the sign of the rounding,
\* the double being the quotient plus RatioError thirds of its last place.
RatioExponent(sourceLength) == Log2Floor(sourceLength \div targetLength)

RatioError(sourceLength) ==
    LET E == RatioExponent(sourceLength)
        r == (sourceLength * (IF (44 - E) % 2 = 0 THEN 1 ELSE 2)) % 3
    IN  IF r = 0 THEN 0 ELSE IF r = 1 THEN -1 ELSE 1

\* Math.floor(i * ratio) for 0 <= i <= targetLength.  The double product is
\* the exact product i * sourceLength / targetLength moved by i thirds of
\* the last place of ratio and rounded to nearest, ties to even: its floor
\* is the exact floor unless the exact product is an integer K, ratio was
\* rounded down, and the move exceeds half the spacing of the doubles just
\* below K, when the product is a double below K.
MathFloorOfProduct(i, sourceLength) ==
    LET K == (i * sourceLength) \div targetLength
        E == RatioExponent(sourceLength)
        below == IF Pow2(Log2Floor(K)) = K THEN Log2Floor(K) - 1 ELSE Log2Floor(K)
    IN  IF /\ (i * sourceLength) % targetLength = 0
           /\ K > 0
           /\ RatioError(sourceLength) = -1
           /\ i * Pow2(E + 1) > 3 * Pow2(below)
        THEN K - 1
        ELSE K

\* The inner loop: the sum of vector[start] .. vector[end - 1], indices
\* counted from 0 as in the source.
RECURSIVE SumRange(_, _, _)
SumRange(vector, start, end) ==
    IF start >= end THEN 0
    ELSE vector[start + 1] + SumRange(vector, start + 1, end)

\* reduceDimensions for a vector of integers of at least targetLength
\* elements: the sums are exact, and sum / count is kept as the rational
\* <<sum, count>>.
reduceDimensions(vector) ==
    LET sourceLength == Len(vector)
    IN  [ i \in 1..targetLength |->
            LET start == MathFloorOfProduct(i - 1, sourceLength)
                end == MathFloorOfProduct(i, sourceLength)
            IN  <<SumRange(vector, start, end), end - start>> ]

\* Lengths of the vectors an embedding model gives, the entries of a
\* constant vector, and the vectors: constant, or counting their indices.
VectorLengths == {768, 784, 1536, 3072}

ConstantEntries == {0, 3, -2}

Vectors ==
    { [j \in 1..n |-> c] : n \in VectorLengths, c \in ConstantEntries }
        \cup { [j \in 1..n |-> j - 1] : n \in VectorLengths }

VectorArgs ==
    { [ fn |-> "reduceDimensions", str1 |-> "", str2 |-> "", vector |-> v,
        existingQueries |-> <<>>, threshold |-> <<0, 1>> ] :
      v \in Vectors }

\* reduceDimensions(vector) returns.
CallReduce ==
    /\ fnArgs.fn = "reduceDimensions"
    /\ fnResult = <<>>
    /\ fnResult' = reduceDimensions(fnArgs.vector)
    /\ UNCHANGED fnArgs
    /\ UNCHANGED <<qlVars, gapVars, chatVars, httpVars>>

\* The helper functions, each called once on arguments of the model.
InitFnCalls ==
    /\ InitQueryLog /\ InitGapEmpty /\ InitChat /\ InitHttp
    /\ fnArgs \in TextArgs \cup CandidateArgs \cup VectorArgs
    /\ fnResult = <<>>

NextFnCalls ==
    \/ CallSimilarity
    \/ CallFindSimilar
    \/ CallReduce

----------------------------------------------------------------------------
(* Specifications *)

Init == InitQueryLog /\ InitGapEmpty /\ InitChat /\ InitHttp /\ InitFn

Next == NextQueryLog \/ NextGap \/ NextChat

Spec == Init /\ [][Next]_vars

SpecQueryLog == Init /\ [][NextQueryLog]_vars

SpecQueryLogSerial == Init /\ [][NextQueryLogSerial]_vars

InitGap == InitQueryLog /\ InitGapSeeded /\ InitChat /\ InitHttp /\ InitFn

SpecGap == InitGap /\ [][NextGap]_vars

SpecChat == Init /\ [][NextChat]_vars

SpecChatSerial == Init /\ [][NextChatSerial]_vars

SpecRoutes == InitGap /\ [][NextRoutes]_vars

SpecFnCalls == InitFnCalls /\ [][NextFnCalls]_vars

----------------------------------------------------------------------------
(* Claims about the QueryLog ledger *)

NoDuplicates(arr) == \A i, j \in 1..Len(arr) : arr[i] = arr[j] => i = j

\* A call's save is executing.
Saving(p) == lpc[p] = "save" /\ lpc'[p] = "idle"

\* The ledger as one call by an identified asker leaves an empty ledger.
OneFirstAsk ==
    /\ Len(queryLogs) = 1
    /\ queryLogs[1].askCount = 1
    /\ Len(queryLogs[1].originalQuestions) = 1
    /\ Len(queryLogs[1].askedByUsers) = 1
    /\ ~queryLogs[1].answered

\* The call's question normalized to the text of the first entry, and its
\* asker is identified and is not the first entry's asker.
SecondAsk(p) ==
    /\ Trimmed[lloc[p].normalizedQuestion] = queryLogs[1].normalizedQuestion
    /\ lloc[p].userId # Null
    /\ lloc[p].userId # queryLogs[1].askedByUsers[1]

\* C1: from an empty ledger, two logUnansweredQuery calls run one after the
\* other, by two different askers, with questions that normalize to the same
\* text, leave exactly one entry, with askCount 2, two occurrences and exactly
\* the two askers: the first call leaves one entry of askCount 1, and the
\* second call, finding the ledger so, leaves the one entry counted twice.
C1_Dedup ==
    [][\A p \in Procs :
          /\ (Saving(p) /\ queryLogs = <<>> /\ lloc[p].userId # Null) =>
                /\ OneFirstAsk'
                /\ queryLogs'[1].normalizedQuestion = Trimmed[lloc[p].normalizedQuestion]
                /\ queryLogs'[1].askedByUsers = <<lloc[p].userId>>
          /\ (Saving(p) /\ OneFirstAsk /\ SecondAsk(p)) =>
                /\ Len(queryLogs') = 1
                /\ queryLogs'[1].askCount = 2
                /\ Len(queryLogs'[1].originalQuestions) = 2
                /\ queryLogs'[1].askedByUsers =
                      <<queryLogs[1].askedByUsers[1], lloc[p].userId>>]_vars

\* A second asker's call for the first entry's text is about to save.
C1_Witness ==
    \E p \in Procs :
        /\ lpc[p] = "save"
        /\ OneFirstAsk
        /\ SecondAsk(p)
        /\ lloc[p].originalQuestion # queryLogs[1].originalQuestion

\* C2: in every reachable state each entry's askCount, in the QueryLog and in
\* the KnowledgeGap ledger, is the number of its occurrence records and is at
\* least 1, also when two calls that match the same entry interleave between
\* find and save.
C2_AskCountIsOccurrences ==
    /\ \A i \in 1..Len(queryLogs) :
          /\ queryLogs[i].askCount = Len(queryLogs[i].originalQuestions)
          /\ queryLogs[i].askCount >= 1
    /\ \A i \in 1..Len(gaps) :
          /\ gaps[i].askCount = Len(gaps[i].originalQueries)
          /\ gaps[i].askCount >= 1

\* C3: in every reachable state an asker identifier appears at most once in
\* an entry's askedByUsers.
C3_AskerAtMostOnce ==
    \A i \in 1..Len(queryLogs) : NoDuplicates(queryLogs[i].askedByUsers)

\* The call's normalized question is that of an answered entry.
AsksResolvedTopic(p) ==
    \E i \in 1..Len(queryLogs) :
        /\ queryLogs[i].answered
        /\ queryLogs[i].normalizedQuestion = Trimmed[lloc[p].normalizedQuestion]

AnsweredUntouched ==
    \A i \in 1..Len(queryLogs) :
        queryLogs[i].answered =>
            /\ Len(queryLogs') >= i
            /\ queryLogs'[i] = queryLogs[i]

CreatesFreshEntry(p) ==
    /\ Len(queryLogs') = Len(queryLogs) + 1
    /\ queryLogs'[Len(queryLogs')].askCount = 1
    /\ ~queryLogs'[Len(queryLogs')].answered
    /\ queryLogs'[Len(queryLogs')].normalizedQuestion = Trimmed[lloc[p].normalizedQuestion]

SomeUnansweredMatches(p) ==
    \E i \in 1..Len(queryLogs) :
        /\ ~queryLogs[i].answered
        /\ RatGE(Similarity[lloc[p].normalizedQuestion, queryLogs[i].normalizedQuestion],
                 LogThreshold)

\* C4 as stated: with calls run one at a time, every logUnansweredQuery whose
\* normalized question is that of an answered entry creates a new entry with
\* askCount 1 and leaves the answered entry unchanged.
C4_AlwaysCreates ==
    [][\A p \in Procs :
          (Saving(p) /\ AsksResolvedTopic(p)) =>
              (CreatesFreshEntry(p) /\ AnsweredUntouched)]_vars

\* C4, amended: with calls run one at a time, a logUnansweredQuery never
\* holds an answered entry as its match and its save leaves every answered
\* entry unchanged; when its normalized question is that of an answered entry
\* it creates a new entry with askCount 1 unless an unanswered entry already
\* matches, and then it updates that unanswered entry.
C4_ResolvedIsolation ==
    [][\A p \in Procs :
          /\ (lloc'[p].similarQuery # <<>> => ~lloc'[p].similarQuery[1].answered)
          /\ Saving(p) => AnsweredUntouched
          /\ (Saving(p) /\ AsksResolvedTopic(p) /\ ~SomeUnansweredMatches(p))
                => CreatesFreshEntry(p)
          /\ (Saving(p) /\ AsksResolvedTopic(p) /\ SomeUnansweredMatches(p))
                => /\ Len(queryLogs') = Len(queryLogs)
                   /\ \E i \in 1..Len(queryLogs) :
                         /\ ~queryLogs[i].answered
                         /\ queryLogs'[i].askCount = queryLogs[i].askCount + 1]_vars

\* A call for the topic of an answered entry is about to save a new entry.
C4_Witness ==
    \E p \in Procs :
        /\ lpc[p] = "save"
        /\ lloc[p].similarQuery = <<>>
        /\ \E i \in 1..Len(queryLogs) :
              /\ queryLogs[i].answered
              /\ queryLogs[i].normalizedQuestion = Trimmed[lloc[p].normalizedQuestion]

----------------------------------------------------------------------------
(* Claims about the KnowledgeGap ledger *)

\* A findOrCreate call's save or insert is executing.
GapSaving(p) == gpc[p] = "save" /\ gpc'[p] = "idle"

\* The call found no open gap, and the ledger holds a gap of its normalized
\* query that is resolved or under review, and no open one.
OnlyClosedGapExists(p) ==
    /\ gloc[p].gap = <<>>
    /\ \E i \in 1..Len(gaps) :
          /\ gaps[i].normalizedQuery = LowerTrimmed[gloc[p].query]
          /\ gaps[i].status \in {"resolved", "under_review"}
    /\ FindOpen(gaps, LowerTrimmed[gloc[p].query]) = 0

\* C5: a findOrCreate for a normalized query of which only a resolved or
\* under-review gap exists creates a new open gap with askCount 1 and leaves
\* the existing gap untouched.
C5_CreatesBesideClosedGap ==
    [][\A p \in Procs :
          (GapSaving(p) /\ OnlyClosedGapExists(p)) =>
              /\ Len(gaps') = Len(gaps) + 1
              /\ gaps'[Len(gaps')].askCount = 1
              /\ gaps'[Len(gaps')].status = "open"
              /\ gaps'[Len(gaps')].normalizedQuery = LowerTrimmed[gloc[p].query]
              /\ \A i \in 1..Len(gaps) : gaps'[i] = gaps[i]]_vars

\* C6: once a gap is resolved, no operation changes its status or its
\* resolution record.
C6_ResolvedIsTerminal ==
    [][\A i \in 1..Len(gaps) :
          gaps[i].status = "resolved" =>
              /\ gaps'[i].status = "resolved"
              /\ gaps'[i].resolution = gaps[i].resolution]_vars

\* C7: in every persisted state the priority of a gap is the function of its
\* askCount that the pre('save') hook computes.
C7_PriorityFollowsAskCount ==
    \A i \in 1..Len(gaps) : gaps[i].priority = PriorityOf(gaps[i].askCount)

----------------------------------------------------------------------------
(* Claims about the chat sessions *)

\* The session object a call holds is the one the store has under the
\* call's session identifier: no sweep has dropped it since the call began.
StillRegistered(c) == userSessions'[cloc[c].sessionId] = cloc[c].session

HistoryAfter(c) == sessionObjs'[cloc[c].session].history

\* The rewrite of call c ends in this step, with an answer or rejected.
RewriteEnds(c) == cpc[c] = "rewrite" /\ cpc'[c] # "rewrite"

\* C8: when transformQuery ends, whether the rewriting model answered or the
\* call was rejected, the history of the session is the history it had before
\* the call: the raw question pushed for the rewrite is gone.
C8_RewriteLeavesNoTurn ==
    [][\A c \in Procs :
          (RewriteEnds(c) /\ StillRegistered(c)) =>
              HistoryAfter(c) = cloc[c].h0]_vars

\* Call c returns an answer in this step.
ReturnsAnswer(c) == cpc[c] # "idle" /\ cpc'[c] = "idle" /\ cres'[c].status = "ok"

\* C9: a call of chatting that returns an answer, alone in its session and
\* with no sweep dropping the session meanwhile, leaves the history it found
\* followed by the rewritten question as a user turn and the returned answer
\* as an assistant turn, and nothing else.
C9_DurableTurnPair ==
    [][\A c \in Procs :
          (ReturnsAnswer(c) /\ StillRegistered(c)) =>
              HistoryAfter(c) =
                  cloc[c].h0 \o << Turn("user", cloc[c].queries),
                                   Turn("assistant", cres'[c].answer) >>]_vars

\* A second call has returned its answer in a session that still holds the
\* pair of the first, the question having been rewritten to another text.
C9_Witness ==
    \E c \in Procs :
        /\ cpc[c] = "idle"
        /\ cres[c].status = "ok"
        /\ userSessions[cres[c].sessionId] # 0
        /\ LET h == sessionObjs[userSessions[cres[c].sessionId]].history
           IN  /\ Len(h) = 4
               /\ h[4] = Turn("assistant", cres[c].answer)
               /\ h[3] = Turn("user", "fee due day")
               /\ h[1].role = "user" /\ h[2].role = "assistant"

\* The timer runs the sweep in this step, at the time now'.
SweepRuns == now' # now

IdleAtSweep(sessionId) == now' - sessionObjs[userSessions[sessionId]].lastActivity

\* C10: a run of the sweep drops every session idle for longer than the
\* timeout and keeps every session idle for the timeout or less.
C10_SweepExpiry ==
    [][SweepRuns =>
          \A sessionId \in SessionIds :
              userSessions[sessionId] # 0 =>
                  IF IdleAtSweep(sessionId) > SESSION_TIMEOUT
                  THEN userSessions'[sessionId] = 0
                  ELSE userSessions'[sessionId] = userSessions[sessionId]]_vars

\* A sweep has run past the timeout, a session idle for exactly the timeout
\* is in the store, and a session object idle for longer is no longer in it.
C10_Witness ==
    /\ now > SESSION_TIMEOUT
    /\ \E sessionId \in SessionIds :
          /\ userSessions[sessionId] # 0
          /\ now - sessionObjs[userSessions[sessionId]].lastActivity = SESSION_TIMEOUT
    /\ \E o \in 1..Len(sessionObjs) :
          /\ now - sessionObjs[o].lastActivity > SESSION_TIMEOUT
          /\ \A sessionId \in SessionIds : userSessions[sessionId] # o

\* Call c of chatting starts in this step.
ChatStarts(c) == cpc[c] = "idle" /\ cpc'[c] = "rewrite"

MintedIds == {RandomIds[i] : i \in 1..Len(RandomIds)}

\* C11 as stated: a call that returns an answer carries the session
\* identifier it was given, and when it was given none, an identifier under
\* which the store held no session before the call (none with a history).
C11_AbsentIsFresh ==
    [][\A c \in Procs :
          ReturnsAnswer(c) =>
              /\ cres'[c].sessionId # Null
              /\ cloc[c].given # Null => cres'[c].sessionId = cloc[c].given
              /\ cloc[c].given = Null => cloc[c].h0 = <<>>]_vars

\* C11, amended: a call that returns an answer carries the session
\* identifier settled at its start: the one given; when none is given, the
\* user identifier, whether or not the store holds a session under it; when
\* neither is given, a minted identifier under which the store holds nothing.
C11_SessionIdCarried ==
    [][\A c \in Procs :
          /\ ChatStarts(c) =>
                IF cloc'[c].given # Null
                THEN cloc'[c].sessionId = cloc'[c].given
                ELSE IF cloc'[c].userId # Null
                THEN cloc'[c].sessionId = cloc'[c].userId
                ELSE /\ cloc'[c].sessionId \in MintedIds
                     /\ userSessions[cloc'[c].sessionId] = 0
          /\ ReturnsAnswer(c) =>
                /\ cres'[c].sessionId # Null
                /\ cres'[c].sessionId = cloc[c].sessionId]_vars

\* A call given neither a session nor a user has returned an answer under a
\* minted identifier, and another has returned one under its user identifier
\* for the second time.
C11_Witness ==
    /\ \E c \in Procs :
          /\ cpc[c] = "idle"
          /\ cres[c].status = "ok"
          /\ cres[c].sessionId \in MintedIds \cup {"u1"}
    /\ \E sessionId \in MintedIds \cup {"u1"} :
          /\ userSessions[sessionId] # 0
          /\ Len(sessionObjs[userSessions[sessionId]].history) >= 2

\* The logging of call c is rejected in this step: logUnansweredQuery, past
\* its normalizer, ends without having written to the ledger.
LoggingThrows(c) ==
    /\ cpc[c] = "logged"
    /\ lpc[c] \in {"find", "save"}
    /\ lpc'[c] = "idle"
    /\ queryLogs' = queryLogs

\* Call c leaves its logging in this step.
LoggingEnds(c) == cpc[c] \in {"logging", "logged"} /\ cpc'[c] \notin {"logging", "logged"}

\* C12: a rejection of the find or of the save of logUnansweredQuery leaves
\* the call of chatting running with its answer and its session as they
\* were, and a call that leaves its logging, rejected or not, returns the
\* generated answer with its session identifier, the history being the one
\* found followed by the rewritten question and the answer.
C12_LoggingFailureIsCaught ==
    [][\A c \in Procs :
          /\ LoggingThrows(c) =>
                /\ cpc'[c] = "logged"
                /\ cres'[c] = cres[c]
                /\ cloc'[c] = cloc[c]
                /\ <<userSessions, sessionObjs>>' = <<userSessions, sessionObjs>>
          /\ LoggingEnds(c) =>
                /\ Unanswered[cres[c].answer]
                /\ cres'[c] = [ status |-> "ok", answer |-> cres[c].answer,
                                sessionId |-> cloc[c].sessionId ]
                /\ StillRegistered(c) =>
                      HistoryAfter(c) =
                          cloc[c].h0 \o << Turn("user", cloc[c].queries),
                                           Turn("assistant", cres[c].answer) >>]_vars

\* A call has returned an answer taken for unanswered while the ledger holds
\* nothing: its logging was rejected; the history of its session ends with
\* the rewritten question and that answer.
C12_Witness ==
    \E c \in Procs :
        /\ cpc[c] = "idle"
        /\ cres[c].status = "ok"
        /\ Unanswered[cres[c].answer]
        /\ queryLogs = <<>>
        /\ userSessions[cres[c].sessionId] # 0
        /\ LET h == sessionObjs[userSessions[cres[c].sessionId]].history
           IN  /\ Len(h) >= 2
               /\ h[Len(h)] = Turn("assistant", cres[c].answer)
               /\ h[Len(h) - 1] = Turn("user", "fee due day")

\* C13: the response of a call whose answer is taken for unanswered does not
\* wait for the logging: whenever the normalizer of the call's logging has
\* ended and the find or the save is still to run or has run, the call has
\* already returned its answer.
C13_ResponseNotBlocked ==
    \A c \in Procs : cpc[c] = "logged" => cres[c].status = "ok"

\* The stages of chatting before the classifier: the rewrite, the embedding,
\* the vector search and the generation.
PrimaryStages == {"rewrite", "embed", "search", "generate"}

Rejected == [status |-> "error", answer |-> "", sessionId |-> Null]

\* C14: a call of chatting whose rewrite, embedding, vector search or
\* generation fails is rejected with no answer, and the call has neither
\* read nor written the ledger: while it is in one of these stages its
\* logging has not started, a step out of one of them leaves the ledger as
\* it is, a call that ends in the first three is rejected, and one that ends
\* its generation without an assistant turn is rejected.
C14_PrimaryFailurePropagates ==
    [][\A c \in Procs :
          cpc[c] \in PrimaryStages =>
              /\ lpc[c] = "idle" /\ lloc[c] = IdleLoc
              /\ cpc'[c] # cpc[c] => qlVars' = qlVars
              /\ (cpc[c] # "generate" /\ cpc'[c] = "idle") => cres'[c] = Rejected
              /\ (cpc[c] = "generate" /\ cpc'[c] = "idle" /\ sessionObjs' = sessionObjs)
                    => cres'[c] = Rejected]_vars

\* A call has been rejected after its search: its session holds the
\* rewritten question with no answer, and the ledger is empty.
C14_Witness ==
    \E c \in Procs :
        /\ cpc[c] = "idle"
        /\ cres[c] = Rejected
        /\ queryLogs = <<>>
        /\ nChats = 1
        /\ \E o \in 1..Len(sessionObjs) :
              sessionObjs[o].history = << Turn("user", "fee due day") >>

----------------------------------------------------------------------------
(* Claims about the normalizer and the similarity *)

\* A call's normalizer ends in this step.
Normalized(p) == lpc[p] = "idle" /\ lpc'[p] = "find"

\* C15: when the external call of normalizeQuery fails, the normalized
\* question of the logging call is the original question unchanged, and the
\* call still completes: its save counts one more ask on the unanswered
\* entry that findSimilarQuery matches with the raw question, or, when there
\* is none, creates an entry whose normalized text is the raw question as
\* the schema trims it.
C15_NormalizerFallback ==
    [][\A p \in Procs :
          /\ (Normalized(p) /\ lloc'[p].normalizerFailed) =>
                lloc'[p].normalizedQuestion = lloc'[p].originalQuestion
          /\ (Saving(p) /\ lloc[p].normalizerFailed) =>
                LET existingQueries == FindUnanswered(queryLogs)
                    i == findSimilarQuery(lloc[p].originalQuestion,
                                          existingQueries, LogThreshold)
                IN  IF i = 0
                    THEN /\ Len(queryLogs') = Len(queryLogs) + 1
                         /\ queryLogs'[Len(queryLogs')].normalizedQuestion =
                               Trimmed[lloc[p].originalQuestion]
                         /\ queryLogs'[Len(queryLogs')].askCount = 1
                    ELSE LET j == IndexOfId(queryLogs, existingQueries[i].id)
                         IN  /\ Len(queryLogs') = Len(queryLogs)
                             /\ queryLogs'[j].askCount = queryLogs[j].askCount + 1
                             /\ queryLogs'[j].normalizedQuestion =
                                   queryLogs[j].normalizedQuestion]_vars

\* The ledger holds an entry whose normalized text is a raw question, asked
\* twice: created and then matched by calls whose normalizer failed.
C15_Witness ==
    \E i \in 1..Len(queryLogs) :
        /\ queryLogs[i].normalizedQuestion = "Fee due"
        /\ queryLogs[i].askCount = 2

----------------------------------------------------------------------------
(* Claims about the routes *)

\* The handler of a route takes up the request in this step.
Handles(route) == request.route = route /\ request' = NoRequest

Stored == <<queryLogs, gaps, userSessions, sessionObjs>>

\* The request names an entry of the QueryLog ledger that is not answered.
NamesUnanswered ==
    /\ IndexOfId(queryLogs, request.id) # 0
    /\ ~queryLogs[IndexOfId(queryLogs, request.id)].answered

\* C16: a Chat request without a question is answered 400 and creates no
\* session, and a resolve request without an answer, to resolveKnowledgeGap
\* or to markQueryAsAnswered for an entry not yet answered, is answered 400
\* and leaves the entry as it is: nothing stored changes and no call is
\* started.
C16_InvalidRequestRejected ==
    [][/\ (Handles("chat") /\ request.question = "") =>
              /\ response' = 400
              /\ Stored' = Stored
              /\ <<cpc, nChats>>' = <<cpc, nChats>>
       /\ (Handles("resolveGap") /\ request.answer = "") =>
              /\ response' = 400
              /\ Stored' = Stored
              /\ apc' = apc
       /\ (Handles("resolveQuery") /\ request.answer = "" /\ NamesUnanswered) =>
              /\ response' = 400
              /\ Stored' = Stored]_vars

----------------------------------------------------------------------------
(* Claims about the helper functions *)

Returned(fn) == fnArgs.fn = fn /\ fnResult # <<>>

\* The two texts have a word of more than two letters in common.
ShareLongWord ==
    WordSet(Chars(fnArgs.str1)) \cap WordSet(Chars(fnArgs.str2)) # {}

\* Neither text has a word of more than two letters.
NoLongWord ==
    WordSet(Chars(fnArgs.str1)) = {} /\ WordSet(Chars(fnArgs.str2)) = {}

\* existingQueries is the one entry whose normalized question is str2.
OneCandidate == fnArgs.existingQueries = << [normalizedQuestion |-> fnArgs.str2] >>

\* C17 as stated: two texts without a common word of more than two letters
\* have the similarity 0, and findSimilarQuery does not match one with the
\* other at the threshold 0.7.
C17_NoCommonWordIsZero ==
    ~ShareLongWord =>
        /\ Returned("calculateStringSimilarity") => fnResult[1][1] = 0
        /\ Returned("findSimilarQuery") /\ OneCandidate => fnResult[1] = 0

\* C17, amended: two texts without a common word of more than two letters
\* have the similarity 0 and do not match, unless neither has any word of
\* more than two letters: then the similarity is 1 and findSimilarQuery
\* matches them, different as the texts may be.
C17_NoCommonWordIsZeroOrBothEmpty ==
    ~ShareLongWord =>
        /\ Returned("calculateStringSimilarity") =>
              IF NoLongWord THEN fnResult[1] = <<1, 1>> ELSE fnResult[1][1] = 0
        /\ Returned("findSimilarQuery") /\ OneCandidate =>
              IF NoLongWord THEN fnResult[1] = 1 ELSE fnResult[1] = 0

\* findSimilarQuery has matched two different texts of short words only.
C17_Witness ==
    /\ Returned("findSimilarQuery") /\ OneCandidate
    /\ fnArgs.str1 = "hi" /\ fnArgs.str2 = "ok"
    /\ fnResult[1] = 1

\* Equality of two similarities as numbers.
RatEQ(a, b) == a[1] * b[2] = b[1] * a[2]

\* C18: the similarity of a text with itself is 1, and the similarity of
\* two texts is the same in either order.
C18_ReflexiveSymmetric ==
    Returned("calculateStringSimilarity") =>
        /\ fnArgs.str1 = fnArgs.str2 => RatEQ(fnResult[1], <<1, 1>>)
        /\ RatEQ(fnResult[1],
                 calculateStringSimilarity(Chars(fnArgs.str2), Chars(fnArgs.str1)))

\* The similarity of a text of two long words with itself has been computed,
\* and so has the similarity of two texts that share some of their words.
C18_Witness ==
    /\ Returned("calculateStringSimilarity")
    /\ \/ fnArgs.str1 = "Fee due" /\ fnArgs.str2 = "Fee due" /\ fnResult[1] = <<2, 2>>
       \/ fnArgs.str1 = "Fee due" /\ fnArgs.str2 = "fee due day now" /\ fnResult[1] = <<2, 4>>

\* The bucket of element i, counted from 0, of the reduction of sourceLength
\* elements, as the exact quotients give it.
BucketStart(i, sourceLength) == (i * sourceLength) \div targetLength
BucketEnd(i, sourceLength) == ((i + 1) * sourceLength) \div targetLength

\* C19: reduceDimensions of a vector of N >= 768 elements has exactly 768
\* elements, element i being the mean of the source elements of the indices
\* floor(i * N / 768) up to but without floor((i + 1) * N / 768), a bucket
\* that is not empty; and the reduction of a constant vector is constant.
C19_BlockAverages ==
    Returned("reduceDimensions") =>
        LET vector == fnArgs.vector
            sourceLength == Len(vector)
        IN  /\ DOMAIN fnResult = 1..targetLength
            /\ \A i \in 0..(targetLength - 1) :
                  LET start == BucketStart(i, sourceLength)
                      end == BucketEnd(i, sourceLength)
                  IN  /\ end > start
                      /\ fnResult[i + 1][2] # 0
                      /\ RatEQ(fnResult[i + 1], <<SumRange(vector, start, end), end - start>>)
            /\ \A c \in ConstantEntries :
                  vector = [j \in 1..sourceLength |-> c] =>
                      \A i \in 1..targetLength : RatEQ(fnResult[i], <<c, 1>>)

----------------------------------------------------------------------------
(* Claims about the history under concurrent calls *)

\* Turns k and k + 1 of session object o are a persisted pair: a user turn
\* with the assistant turn that follows it.
IsPair(o, k) ==
    /\ k + 1 <= Len(sessionObjs[o].history)
    /\ sessionObjs[o].history[k].role = "user"
    /\ sessionObjs[o].history[k + 1].role = "assistant"

\* The step leaves the pair where it is and as it is.
PairKept(o, k) ==
    /\ k + 1 <= Len(sessionObjs'[o].history)
    /\ sessionObjs'[o].history[k] = sessionObjs[o].history[k]
    /\ sessionObjs'[o].history[k + 1] = sessionObjs[o].history[k + 1]

PairPositions(o) == 1..(Len(sessionObjs[o].history) - 1)

\* C20 as stated: no step removes, moves or separates a persisted pair of a
\* session, calls on the same session identifier being in flight at the
\* same time or not.
C20_AppendOnly ==
    [][\A o \in 1..Len(sessionObjs) : \A k \in PairPositions(o) :
          IsPair(o, k) => PairKept(o, k)]_vars

\* The rewrite of call c on session object o ends with its pop in this step.
RewritePops(c, o) ==
    /\ cpc[c] = "rewrite"
    /\ cpc'[c] = "embed"
    /\ cloc[c].session = o

\* C20, amended: a step keeps every persisted pair of a session, except the
\* pop that ends the rewrite of a call on that session when the answer of
\* the pair is the last turn, as it can be only when calls on the session
\* are in flight together: a call that runs alone pops its own raw question.
C20_AppendOnlyBarConcurrentPop ==
    [][\A o \in 1..Len(sessionObjs) : \A k \in PairPositions(o) :
          IsPair(o, k) =>
              \/ PairKept(o, k)
              \/ \E c \in Procs :
                    /\ RewritePops(c, o)
                    /\ k + 1 = Len(sessionObjs[o].history)]_vars

\* No sweep has run, a call has returned its answer, and the history of its
\* session holds no assistant turn: the pop of another call took the answer.
C20_Witness ==
    /\ now = 0
    /\ \E c \in Procs :
          /\ cres[c].status = "ok"
          /\ userSessions[cres[c].sessionId] # 0
          /\ LET h == sessionObjs[userSessions[cres[c].sessionId]].history
             IN  /\ h # <<>>
                 /\ \A k \in 1..Len(h) : h[k].role = "user"

----------------------------------------------------------------------------
(* Claims about concurrent and serial logging *)

\* Call p found no similar entry and its save is executing.
SavesUnmatched(p) == Saving(p) /\ lloc[p].similarQuery = <<>>

\* C21: two logUnansweredQuery calls for the same normalized topic may both
\* have their find answered before either saves; each then saves what its
\* find decided: a call that found no similar entry appends an entry of
\* askCount 1 under its normalized question and leaves every entry of the
\* ledger as it is, an entry of the same normalized question that the
\* other call has created meanwhile included.
C21_StaleFindCreatesDuplicate ==
    [][\A p \in Procs :
          SavesUnmatched(p) =>
              /\ Len(queryLogs') = Len(queryLogs) + 1
              /\ \A i \in 1..Len(queryLogs) : queryLogs'[i] = queryLogs[i]
              /\ LET e == queryLogs'[Len(queryLogs')]
                 IN  /\ e.normalizedQuestion = Trimmed[lloc[p].normalizedQuestion]
                     /\ e.askCount = 1
                     /\ ~e.answered]_vars

\* Two calls and nothing else have run from the empty ledger, and the ledger
\* holds two unanswered entries of the same normalized question, each of
\* askCount 1.
C21_Witness ==
    /\ nOps = 2
    /\ NoCallInFlight
    /\ Len(queryLogs) = 2
    /\ queryLogs[1].normalizedQuestion = queryLogs[2].normalizedQuestion
    /\ queryLogs[1].askCount = 1 /\ queryLogs[2].askCount = 1
    /\ ~queryLogs[1].answered /\ ~queryLogs[2].answered

----------------------------------------------------------------------------
(* Claims about the sweep during a call, and about the frame of a call *)

\* The store holds no session under the identifier of call c: a sweep has
\* deleted it since the call fetched it.
Dropped(c) == cpc[c] # "idle" /\ userSessions[cloc[c].sessionId] = 0

\* Call c ends its rewrite or its generation with success in this step: the
\* two places where chatting touches the activity of its session.
Touches(c) ==
    \/ cpc[c] = "rewrite" /\ cpc'[c] = "embed"
    \/ cpc[c] = "generate" /\ cpc'[c] \in {"logging", "idle"} /\ cres'[c].status # "error"

StepOf(c) == cpc'[c] # cpc[c]

SessionIdOf(c) == IF cpc[c] = "idle" THEN cloc'[c].sessionId ELSE cloc[c].sessionId

\* C23: a step of a call of chatting on one session identifier leaves every
\* session stored under another identifier in the store, and its history and
\* lastActivity as they are, whatever calls are in flight.
C23_SessionsIndependent ==
    [][\A c \in Procs :
          StepOf(c) =>
              \A sessionId \in SessionIds :
                  (sessionId # SessionIdOf(c) /\ userSessions[sessionId] # 0) =>
                      /\ userSessions'[sessionId] = userSessions[sessionId]
                      /\ sessionObjs'[userSessions[sessionId]] =
                            sessionObjs[userSessions[sessionId]]]_vars

\* A call is past its generation on one session while the store holds,
\* under another identifier, a session with the turns of another call.
C23_Witness ==
    \E c \in Procs : \E sessionId \in SessionIds :
        /\ cpc[c] \in {"logging", "logged"}
        /\ sessionId # cloc[c].sessionId
        /\ userSessions[sessionId] # 0
        /\ userSessions[cloc[c].sessionId] # 0
        /\ Len(sessionObjs[userSessions[sessionId]].history) = 2
        /\ Len(sessionObjs[userSessions[cloc[c].sessionId]].history) = 2

\* The generation of call c ends with an answer in this step, and the answer.
Generates(c) == cpc[c] = "generate" /\ cpc'[c] # "generate" /\ cres'[c].status # "error"

Generated(c) == cres'[c].answer

\* C24: a call of chatting reaches the ledger exactly when the classifier
\* flags its generated answer.  A flagged answer starts the logging, any
\* other is returned with the ledger as it is; the logging is one call of
\* logUnansweredQuery, with the question as asked, not as rewritten, and the
\* userId of the caller; a call enters its logging from its generation only,
\* and the ledger changes in no step of a call that is not in its logging.
C24_LedgerIffFlagged ==
    [][\A c \in Procs :
          /\ Generates(c) =>
                /\ qlVars' = qlVars
                /\ IF Unanswered[Generated(c)]
                   THEN cpc'[c] = "logging"
                   ELSE cpc'[c] = "idle" /\ cres'[c].status = "ok"
          /\ (cpc[c] = "logging" /\ cpc'[c] = "logged") =>
                /\ lpc[c] = "idle" /\ lpc'[c] = "find"
                /\ lloc'[c].originalQuestion = cloc[c].question
                /\ lloc'[c].userId = cloc[c].userId
                /\ nOps' = nOps + 1
                /\ queryLogs' = queryLogs
          /\ (cpc'[c] = "logging" /\ cpc[c] # "logging") => cpc[c] = "generate"
          /\ cpc[c] = "logged" => cpc'[c] \in {"logged", "idle"}
          /\ (StepOf(c) /\ cpc[c] \notin {"logging", "logged"}) => qlVars' = qlVars
          /\ (StepOf(c) /\ cpc[c] = "logged") => <<queryLogs, nOps>>' = <<queryLogs, nOps>>]_vars

\* The logging of a call whose question was rewritten to another text has
\* the question as asked, and a call with an answer not flagged has returned
\* before it with nothing logged.
C24_Witness ==
    \E c \in Procs :
        /\ cpc[c] = "logged"
        /\ lloc[c].originalQuestion = "Fee due"
        /\ cloc[c].queries = "fee due day"
        /\ Unanswered[cres[c].answer]
        /\ nChats = 2
        /\ nOps = 1

\* The normalized questions of the entries of a collection, in its order.
NormalizedQuestions(coll) == [i \in 1..Len(coll) |-> coll[i].normalizedQuestion]

\* C25: logUnansweredQuery gives its normalizer the normalized questions of
\* the entries that are unanswered at that time as context, and then, in
\* its find, searches those entries for a similar one.
C25_NormalizesWithOpenEntries ==
    [][\A p \in Procs :
          /\ Normalized(p) =>
                lloc'[p].context = NormalizedQuestions(FindUnanswered(queryLogs))
          /\ (lpc[p] = "find" /\ lpc'[p] = "save") =>
                LET existingQueries == FindUnanswered(queryLogs)
                    i == findSimilarQuery(lloc[p].normalizedQuestion,
                                          existingQueries, LogThreshold)
                IN  lloc'[p].similarQuery =
                        IF i = 0 THEN <<>> ELSE <<existingQueries[i]>>]_vars

----------------------------------------------------------------------------
(* Claims about the choice of findSimilarQuery among several candidates *)

\* The similarity of the question of the call with its candidate i.
CandidateSimilarity(i) ==
    Similarity[fnArgs.str1, fnArgs.existingQueries[i].normalizedQuestion]

\* The candidates of the call at or above its threshold.
AboveThreshold ==
    {i \in 1..Len(fnArgs.existingQueries) :
        RatGE(CandidateSimilarity(i), fnArgs.threshold)}

----------------------------------------------------------------------------
(* Claims about the shape of the histories *)

\* No call of chatting is under way on the session of identifier s.
NoChatInFlightOn(s) == \A c \in Procs : cpc[c] # "idle" => cloc[c].sessionId # s

\* h is a sequence of pairs: a user turn, then an assistant turn.
Alternates(h) ==
    /\ Len(h) % 2 = 0
    /\ \A i \in 1..Len(h) :
          h[i].role = IF i % 2 = 1 THEN "user" ELSE "assistant"

\* C27: whenever no call of chatting is under way on a session, its history
\* has even length and alternates strictly, user turn then assistant turn,
\* beginning with a user turn; also after calls that failed at the rewrite,
\* the embedding, the search or the generation.
C27_HistoryAlternates ==
    \A s \in DOMAIN userSessions :
        (NoChatInFlightOn(s) /\ userSessions[s] # 0) =>
            Alternates(sessionObjs[userSessions[s]].history)

----------------------------------------------------------------------------
(* Claims about the unanswered entries of a ledger written serially *)

\* The positions of the unanswered entries.
Open == {i \in 1..Len(queryLogs) : ~queryLogs[i].answered}

\* C28: with the calls of logUnansweredQuery run one at a time, between
\* markQueryAsAnswered and deleteQuery operations, no two unanswered entries
\* have normalized questions of Jaccard similarity 0.7 or more; in
\* particular no two have the same normalized question.
C28_OpenEntriesDissimilar ==
    \A i, j \in Open :
        i # j =>
            /\ ~RatGE(Similarity[queryLogs[i].normalizedQuestion,
                                 queryLogs[j].normalizedQuestion], <<7, 10>>)
            /\ queryLogs[i].normalizedQuestion # queryLogs[j].normalizedQuestion

\* Two unanswered entries stand side by side, their questions sharing two
\* words of three, and a later call has been counted into one of them.
C28_Witness ==
    /\ NoCallInFlight
    /\ \E i, j \in Open :
          /\ queryLogs[i].normalizedQuestion = "fee due day"
          /\ queryLogs[j].normalizedQuestion = "Fee due"
          /\ queryLogs[i].askCount = 2

----------------------------------------------------------------------------
(* Claims about the turns of a call that the sweep overtook *)

\* C29: when a call of chatting returns an answer, the session the store
\* holds under the returned identifier ends with the rewritten question of
\* the call as a user turn and its answer as an assistant turn, also when the
\* sweep ran while the call waited for one of its external calls.
C29_ReturnedTurnsStored ==
    [][\A c \in Procs :
          ReturnsAnswer(c) =>
              LET o == userSessions'[cres'[c].sessionId]
              IN  /\ o # 0
                  /\ LET h == sessionObjs'[o].history
                     IN  /\ Len(h) >= 2
                         /\ h[Len(h) - 1] = Turn("user", cloc[c].queries)
                         /\ h[Len(h)] = Turn("assistant", cres'[c].answer)]_vars

----------------------------------------------------------------------------
(* Claims about the askers of an entry *)

\* C30: a call of logUnansweredQuery without a userId adds no element to the
\* asker list of any entry, neither when it creates an entry nor when it
\* updates one: every element of askedByUsers is an identifier that a caller
\* supplied.
C30_AskersAreSupplied ==
    \A i \in 1..Len(queryLogs) :
        \A k \in 1..Len(queryLogs[i].askedByUsers) :
            queryLogs[i].askedByUsers[k] \in UserIds \ {Null}

====
